---- MODULE Spec2Model ----
(***************************************************************************)
(* SarOSx64: the buddy physical memory manager (mm/pmm.rs), the virtual    *)
(* memory manager with its VMA list and page-fault router (mm/vmm.rs), the *)
(* mmap/munmap/brk system calls (syscall.rs), fork with copy-on-write      *)
(* (proc/fork.rs) and the scheduler with exit and waitpid (proc.rs).       *)
(*                                                                         *)
(* Three specifications share the module, one per subsystem:               *)
(*   SpecPMM    the buddy allocator under alloc/free traffic               *)
(*   SpecVM     address spaces: mmap, munmap, brk, page faults, fork       *)
(*   SpecSched  the run queue: fork, exit, waitpid, timer preemption       *)
(***************************************************************************)
EXTENDS Integers, Sequences, FiniteSets, Bags, TLC

VARIABLES
    lists,      \* PMM: BuddyAllocator.lists, order -> free list (head first)
    held,       \* PMM: blocks handed out by alloc and not yet freed, <<phys, order>>
    rt,         \* PMM: a caller running "alloc k_1..k_n, then free in reverse"
    merged,     \* PMM: how many buddy pairs the last free coalesced (-1: no free yet)
    free_pages, \* PMM: FREE_PAGES
    total_pages,\* PMM: TOTAL_PAGES
    procs,      \* VM: pids of the processes created so far
    vm,         \* VM: Process.vm, pid -> [areas, brk]
    pt,         \* VM: Process.address_space, pid -> (page -> leaf PTE), user half
    mem,        \* VM: frame -> contents of the data frame
    exitc,      \* VM: pid -> exit code of a terminated process, -1 while it lives
    build,      \* VM: [checked |-> arithmetic overflow panics (TRUE) or wraps (FALSE)]
    kpanic,     \* VM: the kernel has panicked
    last,       \* VM: the last system call or user access, with its result
    cow,        \* VM: child pid -> what fork shared between the child and its parent
    nops,       \* VM: operations run so far
    sproc,      \* Sched: pid -> Process (ppid, state, exit_code, priority, slices)
    queue,      \* Sched: RUN_QUEUE.queue, pids in queue order
    current,    \* Sched: RUN_QUEUE.current, a pid or None
    cpu,        \* Sched: pid of the thread the CPU is executing
    live,       \* Sched: where that thread is in its code
    ctx,        \* Sched: pid -> Process.context, where the thread resumes
    wargs,      \* Sched: pid -> arguments of the waitpid the thread is inside
    ustatus,    \* Sched: pid -> the u32 at StatusPtr in that process's memory
    nextpid,    \* Sched: NEXT_PID
    wlast,      \* Sched: the last return of sys_waitpid
    retcount,   \* Sched: pid -> how many times sys_waitpid has returned it
    exited,     \* Sched: pid -> what terminate_current did when it exited
    nev,        \* Sched: system calls and key presses so far
    klast,      \* Sched: the last sys_kill and what it returned
    kbuf,       \* Sched: bytes in KB_BUF
    ran,        \* Sched: timer ticks the current process got since it was picked
    tmem,       \* PT: physical frame -> the entries written in it (index -> entry)
    tframes,    \* PT: frames alloc_zeroed_frame has handed out for tables
    tlast,      \* PT: the last map, map_large or unmap, and translate after it
    tops,       \* PT: operations run so far
    upt,        \* User: leaf page table of the calling process, page -> Pte
    ukb,        \* User: bytes in KB_BUF
    ulast,      \* User: the last system call, what it returned and touched
    ucalls,     \* User: system calls made so far
    kwords,     \* Fork: the 8 words at the top of the child's kernel stack block
    ksys,       \* Fork: the frame syscall_entry pushed for the parent's fork
    kchild,     \* Fork: the child, its context and the registers it returned with
    kparent,    \* Fork: what the parent's fork returned
    irr,        \* PIC: the IRQ lines that are raised and not yet acknowledged
    isr1,       \* PIC: the in-service lines of the master 8259
    isr2,       \* PIC: the in-service lines of the slave 8259
    plast,      \* PIC: the last irq_dispatch and what it did, in order
    lheld,      \* Lock: the SpinGuards alive, in the order they were made
    lif,        \* Lock: RFLAGS.IF
    lpath,      \* Lock: the kernel path that runs and its lock operations
    lpc,        \* Lock: the number of lock operations of the path done
    pend,       \* Sched: the switch a schedule() has decided and not yet made
    kring,      \* Keyboard: KB_BUF, [buf, head, tail]
    kq,         \* Keyboard: the bytes accepted and not yet delivered, oldest first
    kblast,     \* Keyboard: the last push or pop and its result
    kbops       \* Keyboard: pushes and pops done

pmmVars == <<lists, held, rt, merged, free_pages, total_pages>>

vmVars == <<procs, vm, pt, mem, exitc, build, kpanic, last, cow, nops>>

schedVars == <<sproc, queue, current, cpu, live, ctx, wargs, ustatus, nextpid,
               wlast, retcount, exited, nev, klast, kbuf, ran>>

ptVars == <<tmem, tframes, tlast, tops>>

userVars == <<upt, ukb, ulast, ucalls>>

forkVars == <<kwords, ksys, kchild, kparent>>

picVars == <<irr, isr1, isr2, plast>>

lockVars == <<lheld, lif, lpath, lpc>>

yieldVars == <<pend>>

kbVars == <<kring, kq, kblast, kbops>>

vars == <<pmmVars, vmVars, schedVars, ptVars, userVars, forkVars, picVars, lockVars,
          yieldVars, kbVars>>

\* What an operation of one subsystem leaves alone.
notPmm == <<vmVars, schedVars, ptVars, userVars, forkVars, picVars, lockVars, yieldVars, kbVars>>

notVm == <<pmmVars, schedVars, ptVars, userVars, forkVars, picVars, lockVars, yieldVars, kbVars>>

notSched == <<pmmVars, vmVars, ptVars, userVars, forkVars, picVars, lockVars, yieldVars, kbVars>>

notPt == <<pmmVars, vmVars, schedVars, userVars, forkVars, picVars, lockVars, yieldVars, kbVars>>

notFork == <<pmmVars, vmVars, schedVars, ptVars, userVars, picVars, lockVars, yieldVars, kbVars>>

notPic == <<pmmVars, vmVars, schedVars, ptVars, userVars, forkVars, lockVars, yieldVars, kbVars>>

notLock == <<pmmVars, vmVars, schedVars, ptVars, userVars, forkVars, picVars, yieldVars, kbVars>>

notUser == <<pmmVars, vmVars, schedVars, ptVars, forkVars, picVars, lockVars, yieldVars, kbVars>>

notKb == <<pmmVars, vmVars, schedVars, ptVars, userVars, forkVars, picVars, lockVars,
          yieldVars>>

notSchedYield == <<pmmVars, vmVars, ptVars, userVars, forkVars, picVars, lockVars, kbVars>>

----------------------------------------------------------------------------
(* mm/pmm.rs                                                               *)

PAGE_SIZE == 4096
MAX_ORDER == 12

\* Bounds of the PMM model.
MaxHeld == 1        \* blocks outstanding outside a round trip
MaxRoundTrip == 3   \* allocations in one round trip

\* Orders the callers ask for (alloc_frame: 0; alloc_frames: any).
AllocOrders == {0, 1, 2, MAX_ORDER - 1, MAX_ORDER}

Orders == 0 .. MAX_ORDER

Min(a, b) == IF a < b THEN a ELSE b

\* (PAGE_SIZE << order)
BlockSize(order) == PAGE_SIZE * (2 ^ order)

align_up(val, align) == ((val + align - 1) \div align) * align

align_down(val, align) == (val \div align) * align

\* FreeList::push: the new block becomes the head.
Push(ls, order, phys) == [ls EXCEPT ![order] = <<phys>> \o @]

Contains(list, phys) == \E i \in 1 .. Len(list) : list[i] = phys

\* FreeList::remove: unlink the first node whose address is phys.
RemoveFirst(list, phys) ==
    LET i == CHOOSE j \in 1 .. Len(list) :
                 list[j] = phys /\ \A k \in 1 .. j - 1 : list[k] # phys
    IN  SubSeq(list, 1, i - 1) \o SubSeq(list, i + 1, Len(list))

EmptyLists == [o \in Orders |-> <<>>]

\* add_region's inner loop: the order of the block carved at addr.
RECURSIVE RegionOrder(_, _, _)
RegionOrder(addr, end, order) ==
    IF order = 0 \/ addr % BlockSize(order) # 0 \/ addr + BlockSize(order) > end
    THEN IF order = 0 THEN 0 ELSE RegionOrder(addr, end, order - 1)
    ELSE order

RECURSIVE AddRegionFrom(_, _, _)
AddRegionFrom(ls, addr, end) ==
    IF addr >= end
    THEN ls
    ELSE LET o == RegionOrder(addr, end, MAX_ORDER)
         IN  AddRegionFrom(Push(ls, o, addr), addr + BlockSize(o), end)

add_region(ls, base, size) ==
    AddRegionFrom(ls, align_up(base, PAGE_SIZE), align_down(base + size, PAGE_SIZE))

LOW_RESERVED == 2097152   \* 0x20_0000: the low 2 MiB are never handed out

\* pmm::init, one memory-map entry.
InitEntry(ls, entry) ==
    IF ~entry.usable
    THEN ls
    ELSE IF entry.base < LOW_RESERVED /\ LOW_RESERVED - entry.base >= entry.length
         THEN ls
         ELSE LET base == IF entry.base < LOW_RESERVED THEN LOW_RESERVED ELSE entry.base
                  length == entry.length - (base - entry.base)
              IN  IF length > 0 THEN add_region(ls, base, length) ELSE ls

RECURSIVE InitFrom(_, _, _)
InitFrom(ls, memmap, i) ==
    IF i > Len(memmap) THEN ls ELSE InitFrom(InitEntry(ls, memmap[i]), memmap, i + 1)

PmmInit(memmap) == InitFrom(EmptyLists, memmap, 1)

\* add_region's fetch_add(1 << order) for every block it pushes.
RECURSIVE AddRegionPages(_, _)
AddRegionPages(addr, end) ==
    IF addr >= end
    THEN 0
    ELSE LET o == RegionOrder(addr, end, MAX_ORDER)
         IN  2 ^ o + AddRegionPages(addr + BlockSize(o), end)

\* The pages pmm::init counts for one memory-map entry.
InitEntryPages(entry) ==
    IF ~entry.usable
    THEN 0
    ELSE IF entry.base < LOW_RESERVED /\ LOW_RESERVED - entry.base >= entry.length
         THEN 0
         ELSE LET base == IF entry.base < LOW_RESERVED THEN LOW_RESERVED ELSE entry.base
                  length == entry.length - (base - entry.base)
              IN  IF length > 0
                  THEN AddRegionPages(align_up(base, PAGE_SIZE),
                                      align_down(base + length, PAGE_SIZE))
                  ELSE 0

RECURSIVE InitPagesFrom(_, _)
InitPagesFrom(memmap, i) ==
    IF i > Len(memmap) THEN 0 ELSE InitEntryPages(memmap[i]) + InitPagesFrom(memmap, i + 1)

\* A free that counts one page whatever the order.
FreeCountsOnePage(pages, order) == pages + 1

\* FREE_PAGES.fetch_sub(1 << order) at the end of alloc
AllocCountsPages(pages, order) == pages - 2 ^ order

\* FREE_PAGES.fetch_add(1 << order) at the end of free
FreeCountsPages(pages, order) == pages + 2 ^ order

Entry(b, l, u) == [base |-> b, length |-> l, usable |-> u]

\* Boot memory maps: sorted, page-aligned usable entries that do not touch
\* each other (the boot protocol merges contiguous usable ranges).
MemMaps ==
    { \* one range straddling the 2 MiB line: 7 usable pages from 0x200000
      << Entry(2093056, 4096 + 7 * 4096, TRUE) >>,
      \* a reserved hole between two small ranges, the first one unaligned
      << Entry(1048576, 4096, TRUE),
         Entry(2101248, 3 * 4096, TRUE),
         Entry(2113536, 4096, FALSE),
         Entry(2117632, 2 * 4096, TRUE) >>,
      \* two blocks of the top order, buddies of each other, plus a tail
      << Entry(33554432, 2 * 16777216 + 3 * 4096, TRUE) >> }

\* An alloc whose split puts back the lower half, which it also returns.
AllocSplitLow(ls, order) ==
    LET nonempty == {o \in order .. MAX_ORDER : ls[o] # <<>>}
    IN  IF nonempty = {}
        THEN [ok |-> FALSE, phys |-> 0, lists |-> ls]
        ELSE LET found == CHOOSE o \in nonempty : \A p \in nonempty : o <= p
                 phys  == Head(ls[found])
             IN  [ok    |-> TRUE,
                  phys  |-> phys,
                  lists |-> [o \in Orders |->
                               IF o = found THEN Tail(ls[o])
                               ELSE IF o >= order /\ o < found
                                    THEN <<phys>> \o ls[o]
                                    ELSE ls[o]]]

\* An alloc that returns the head of the list it found and leaves it listed.
AllocKeepsBlock(ls, order) ==
    LET nonempty == {o \in order .. MAX_ORDER : ls[o] # <<>>}
    IN  IF nonempty = {}
        THEN [ok |-> FALSE, phys |-> 0, lists |-> ls]
        ELSE LET found == CHOOSE o \in nonempty : \A p \in nonempty : o <= p
             IN  [ok |-> TRUE, phys |-> Head(ls[found]), lists |-> ls]

\* BuddyAllocator::alloc
Alloc(ls, order) ==
    LET nonempty == {o \in order .. MAX_ORDER : ls[o] # <<>>}
    IN  IF nonempty = {}
        THEN [ok |-> FALSE, phys |-> 0, lists |-> ls]
        ELSE LET found == CHOOSE o \in nonempty : \A p \in nonempty : o <= p
                 phys  == Head(ls[found])
             IN  [ok    |-> TRUE,
                  phys  |-> phys,
                  lists |-> [o \in Orders |->
                               IF o = found THEN Tail(ls[o])
                               ELSE IF o >= order /\ o < found
                                    THEN <<phys + BlockSize(o)>> \o ls[o]
                                    ELSE ls[o]]]

\* buddy_phys = current_phys ^ block_size
Buddy(phys, order) ==
    IF (phys \div BlockSize(order)) % 2 = 0
    THEN phys + BlockSize(order)
    ELSE phys - BlockSize(order)

RECURSIVE FreeLoop(_, _, _)
FreeLoop(ls, cur, order) ==
    IF order >= MAX_ORDER
    THEN Push(ls, order, cur)
    ELSE LET b == Buddy(cur, order)
         IN  IF Contains(ls[order], b)
             THEN FreeLoop([ls EXCEPT ![order] = RemoveFirst(@, b)], Min(cur, b), order + 1)
             ELSE Push(ls, order, cur)

FreeNoCoalesce(ls, phys, order) == Push(ls, order, phys)

\* A free that coalesces with the buddy once and stops.
FreeOnce(ls, phys, order) ==
    IF order < MAX_ORDER /\ Contains(ls[order], Buddy(phys, order))
    THEN Push([ls EXCEPT ![order] = RemoveFirst(@, Buddy(phys, order))],
              order + 1, Min(phys, Buddy(phys, order)))
    ELSE Push(ls, order, phys)

\* BuddyAllocator::free
Free(ls, phys, order) == FreeLoop(ls, phys, order)

\* The free blocks of every order, as a multiset of <<order, phys>>.
RECURSIVE BagOfSeq(_, _)
BagOfSeq(order, list) ==
    IF list = <<>> THEN EmptyBag
    ELSE SetToBag({<<order, Head(list)>>}) (+) BagOfSeq(order, Tail(list))

RECURSIVE BagUpTo(_, _)
BagUpTo(ls, order) ==
    IF order < 0 THEN EmptyBag ELSE BagOfSeq(order, ls[order]) (+) BagUpTo(ls, order - 1)

FreeBag(ls) == BagUpTo(ls, MAX_ORDER)

FreeCount(ls) == BagCardinality(FreeBag(ls))

\* Buddy pairs coalesced by a free that took the lists from ls to after.
Merges(ls, after) == FreeCount(ls) + 1 - FreeCount(after)

RtIdle == [phase |-> "idle", before |-> EmptyBag, stack |-> <<>>, n |-> 0, split |-> FALSE]

PmmInitState ==
    /\ \E m \in MemMaps :
          /\ lists = PmmInit(m)
          /\ free_pages = InitPagesFrom(m, 1)
          /\ total_pages = InitPagesFrom(m, 1)
    /\ held = {}
    /\ rt = RtIdle
    /\ merged = -1

\* alloc_frames(order) by some caller.
PmmAlloc(order) ==
    /\ rt.phase = "idle"
    /\ Cardinality(held) < MaxHeld
    /\ LET r == Alloc(lists, order)
       IN  IF r.ok
           THEN /\ lists' = r.lists
                /\ held' = held \cup {<<r.phys, order>>}
                /\ free_pages' = AllocCountsPages(free_pages, order)
           ELSE UNCHANGED <<lists, held, free_pages>>
    /\ UNCHANGED <<rt, merged, total_pages, notPmm>>

\* free_frames(phys, order) of a block the caller got from alloc_frames(order).
PmmFree(b) ==
    /\ rt.phase = "idle"
    /\ b \in held
    /\ lists' = Free(lists, b[1], b[2])
    /\ held' = held \ {b}
    /\ merged' = Merges(lists, lists')
    /\ free_pages' = FreeCountsPages(free_pages, b[2])
    /\ UNCHANGED <<rt, total_pages, notPmm>>

\* A caller starts a round trip: it remembers the free lists.
RtBegin ==
    /\ rt.phase = "idle"
    /\ rt' = [RtIdle EXCEPT !.phase = "alloc", !.before = FreeBag(lists)]
    /\ UNCHANGED <<lists, held, merged, free_pages, total_pages, notPmm>>

RtAlloc(order) ==
    /\ rt.phase = "alloc"
    /\ Len(rt.stack) < MaxRoundTrip
    /\ LET r == Alloc(lists, order)
       IN  /\ r.ok
           /\ lists' = r.lists
           /\ rt' = [rt EXCEPT !.stack = <<<<r.phys, order>>>> \o @,
                               !.n = @ + 1,
                               !.split = @ \/ lists[order] = <<>>]
    /\ free_pages' = AllocCountsPages(free_pages, order)
    /\ UNCHANGED <<held, merged, total_pages, notPmm>>

\* The frees of the round trip, last allocated first.
RtFree ==
    /\ rt.phase \in {"alloc", "free"}
    /\ rt.stack # <<>>
    /\ LET b == Head(rt.stack)
       IN  /\ lists' = Free(lists, b[1], b[2])
           /\ free_pages' = FreeCountsPages(free_pages, b[2])
           /\ rt' = [rt EXCEPT !.stack = Tail(@),
                               !.phase = IF Tail(rt.stack) = <<>> THEN "done" ELSE "free"]
    /\ merged' = Merges(lists, lists')
    /\ UNCHANGED <<held, total_pages, notPmm>>

RtEnd ==
    /\ rt.phase = "done"
    /\ rt' = RtIdle
    /\ UNCHANGED <<lists, held, merged, free_pages, total_pages, notPmm>>

PmmNext ==
    \/ \E o \in AllocOrders : PmmAlloc(o)
    \/ \E b \in held : PmmFree(b)
    \/ RtBegin
    \/ \E o \in AllocOrders : RtAlloc(o)
    \/ RtFree
    \/ RtEnd



----------------------------------------------------------------------------
(* mm/vmm.rs, syscall.rs (mod mm), proc/fork.rs, proc/elf.rs               *)
(*                                                                         *)
(* A u64 is kept at its width: a value below 2^63 stands for itself and a  *)
(* value x >= 2^63 is written x - 2^64, so that + is the wrapping add of   *)
(* the machine as long as the result stays near 0 or near 2^64.            *)
(* The page table is kept as its leaf level, page -> PTE; the intermediate *)
(* tables exist exactly where a leaf is present. The user stack is left    *)
(* out: its addresses lie above everything the inputs below reach.         *)

\* Bounds of the VM model.
MaxProcs == 2       \* processes (fork stops there)
MaxVmas == 4        \* VMAs of one VmSpace (mmap and brk stop there)
MaxFrames == 6      \* data frames the PMM can hand out
MaxOps == 4         \* system calls and user accesses in one run

EINVAL == 22
ENOMEM == 12
SIGSEGV == 11

\* a + b overflows 64 bits.
U64Carry(a, b) ==
    \/ a < 0 /\ b < 0
    \/ a < 0 /\ b >= 0 /\ a + b >= 0
    \/ b < 0 /\ a >= 0 /\ a + b >= 0

\* a < b and a <= b on u64.
ULt(a, b) == IF (a < 0) = (b < 0) THEN a < b ELSE b < 0

ULe(a, b) == a = b \/ ULt(a, b)

\* x & !(PAGE_SIZE - 1)
PageMask(x) == x - (x % PAGE_SIZE)

Vma(s, e, f) == [start |-> s, end |-> e, flags |-> f]

\* VmaEntry::contains
VmaContains(a, addr) == ULe(a.start, addr) /\ ULt(addr, a.end)

\* VmSpace::find_vma: the first area that contains addr.
find_vma(areas, addr) ==
    LET hits == {i \in 1 .. Len(areas) : VmaContains(areas[i], addr)}
    IN  IF hits = {}
        THEN [found |-> FALSE, vma |-> Vma(0, 0, {})]
        ELSE [found |-> TRUE,
              vma   |-> areas[CHOOSE i \in hits : \A j \in hits : i <= j]]

InsertAt(seq, i, x) == SubSeq(seq, 1, i - 1) \o <<x>> \o SubSeq(seq, i, Len(seq))

\* VmSpace::add_vma: push, then sort_unstable_by_key(start). The list was
\* sorted before, so the new area lands among the areas of equal start, at a
\* place the unstable sort does not promise.
add_vma(areas, start, end, flags) ==
    { InsertAt(areas, i, Vma(start, end, flags)) :
        i \in { k \in 1 .. Len(areas) + 1 :
                  /\ \A j \in 1 .. k - 1 : ULe(areas[j].start, start)
                  /\ \A j \in k .. Len(areas) : ULe(start, areas[j].start) } }

\* VmSpace::remove_vma: drop the areas that lie wholly inside [start, end).
remove_vma(areas, start, end) ==
    SelectSeq(areas, LAMBDA a : ~(ULe(start, a.start) /\ ULe(a.end, end)))

\* clone_vmspace: the child's copy of the parent's VmSpace.
clone_vmspace(parent) ==
    [brk   |-> parent.brk,
     areas |-> [i \in 1 .. Len(parent.areas) |->
                  LET a == parent.areas[i]
                  IN  IF "WRITE" \in a.flags /\ "ANONYMOUS" \in a.flags
                      THEN [a EXCEPT !.flags = @ \cup {"COPY_ON_WRITE"}]
                      ELSE a]]

Pte(f, w, nx) == [frame |-> f, w |-> w, user |-> TRUE, nx |-> nx]

\* AddressSpace::map: install the leaf for the page.
map(ptp, page, frame, w, nx) ==
    [q \in DOMAIN ptp \cup {page} |-> IF q = page THEN Pte(frame, w, nx) ELSE ptp[q]]

\* AddressSpace::unmap over the pages of a set.
unmap(ptp, pages) == [q \in DOMAIN ptp \ pages |-> ptp[q]]

\* AddressSpace::translate of a page address.
translate(ptp, page) ==
    IF page \in DOMAIN ptp THEN [ok |-> TRUE, frame |-> ptp[page].frame]
    ELSE [ok |-> FALSE, frame |-> 0]

\* clone_pt / make_cow_pt: a user leaf loses its write bit.
StripWrite(ptp) ==
    [q \in DOMAIN ptp |-> IF ptp[q].user THEN [ptp[q] EXCEPT !.w = FALSE] ELSE ptp[q]]

\* alloc_zeroed_frame: the next frame of the PMM, zero-filled; none when the
\* budget is used up.
FramesUsed(m) == Cardinality(DOMAIN m)

alloc_zeroed_frame(m) ==
    IF FramesUsed(m) >= MaxFrames
    THEN [ok |-> FALSE, frame |-> 0, mem |-> m]
    ELSE LET f == FramesUsed(m) + 1
         IN  [ok |-> TRUE, frame |-> f, mem |-> (f :> 0) @@ m]

\* handle_demand_page
handle_demand_page(ptp, m, addr, vma) ==
    LET page == align_down(addr, PAGE_SIZE)
        a    == alloc_zeroed_frame(m)
    IN  IF ~a.ok
        THEN [handled |-> FALSE, pt |-> ptp, mem |-> m]
        ELSE [handled |-> TRUE,
              pt  |-> map(ptp, page, a.frame, "WRITE" \in vma.flags, "EXEC" \notin vma.flags),
              mem |-> a.mem]

\* handle_cow
handle_cow(ptp, m, addr) ==
    LET page == align_down(addr, PAGE_SIZE)
        old  == translate(ptp, page)
        a    == alloc_zeroed_frame(m)
    IN  IF ~old.ok \/ ~a.ok
        THEN [handled |-> FALSE, pt |-> ptp, mem |-> m]
        ELSE [handled |-> TRUE,
              pt  |-> map(ptp, page, a.frame, TRUE, FALSE),
              mem |-> [a.mem EXCEPT ![a.frame] = m[old.frame]]]

\* A router that gives every store to a present page a private copy,
\* whatever the area allows.
HandlePageFaultCopiesAlways(space, ptp, m, addr, present, write) ==
    LET v == find_vma(space.areas, addr)
    IN  IF ~v.found
        THEN [handled |-> FALSE, pt |-> ptp, mem |-> m]
        ELSE IF write /\ present
             THEN handle_cow(ptp, m, addr)
             ELSE IF ~present
                  THEN handle_demand_page(ptp, m, addr, v.vma)
                  ELSE [handled |-> FALSE, pt |-> ptp, mem |-> m]

\* The router as the source has it: the copy is made only for an area
\* without WRITE.
handle_page_fault(space, ptp, m, addr, present, write) ==
    LET v == find_vma(space.areas, addr)
    IN  IF ~v.found
        THEN [handled |-> FALSE, pt |-> ptp, mem |-> m]
        ELSE IF write /\ "WRITE" \notin v.vma.flags
             THEN IF "COPY_ON_WRITE" \in v.vma.flags
                  THEN handle_cow(ptp, m, addr)
                  ELSE [handled |-> FALSE, pt |-> ptp, mem |-> m]
             ELSE IF ~present
                  THEN handle_demand_page(ptp, m, addr, v.vma)
                  ELSE [handled |-> FALSE, pt |-> ptp, mem |-> m]

\* One user load or store at addr: the MMU's check, #PF and the router, and
\* the restart of the instruction after a handled fault.
RECURSIVE Access(_, _, _, _, _, _, _)
Access(space, ptp, m, addr, write, val, faults) ==
    LET page    == align_down(addr, PAGE_SIZE)
        present == page \in DOMAIN ptp
    IN  IF present /\ (~write \/ ptp[page].w)
        THEN [outcome |-> "ok", faults |-> faults, pt |-> ptp,
              mem |-> IF write THEN [m EXCEPT ![ptp[page].frame] = val] ELSE m,
              value |-> IF write THEN val ELSE m[ptp[page].frame]]
        ELSE LET r == handle_page_fault(space, ptp, m, addr, present, write)
             IN  IF r.handled /\ faults < 3
                 THEN Access(space, r.pt, r.mem, addr, write, val, faults + 1)
                 ELSE [outcome |-> IF r.handled THEN "livelock" ELSE "sigsegv",
                       faults |-> faults + 1, pt |-> r.pt, mem |-> r.mem, value |-> 0]

\* proc/elf.rs: one PT_LOAD of an image, and the images exec is given.
Seg(vaddr, memsz, flags, fill) ==
    [vaddr |-> vaddr, memsz |-> memsz, flags |-> flags, fill |-> fill]

Images ==
    { << Seg(4194304, 2048, {"R", "X"}, 1), Seg(4198400, 4096, {"R", "W"}, 2) >>,
      << Seg(6291456, 6144, {"R", "W"}, 3) >> }

BootImage == << Seg(4194304, 2048, {"R", "X"}, 1), Seg(4198400, 4096, {"R", "W"}, 2) >>

VmaFlagsOf(pf) ==
    (IF "R" \in pf THEN {"READ"} ELSE {}) \cup
    (IF "W" \in pf THEN {"WRITE"} ELSE {}) \cup
    (IF "X" \in pf THEN {"EXEC"} ELSE {})

\* load_elf, the page loop of one segment: a page not yet translated gets a
\* zeroed frame and a leaf; the file bytes are copied in afterwards.
RECURSIVE LoadPages(_, _, _, _, _)
LoadPages(ptp, m, page, page_end, seg) ==
    IF page >= page_end
    THEN [ok |-> TRUE, pt |-> ptp, mem |-> m]
    ELSE IF translate(ptp, page).ok
         THEN LoadPages(ptp, [m EXCEPT ![ptp[page].frame] = seg.fill],
                        page + PAGE_SIZE, page_end, seg)
         ELSE LET a == alloc_zeroed_frame(m)
              IN  IF ~a.ok
                  THEN [ok |-> FALSE, pt |-> ptp, mem |-> m]
                  ELSE LoadPages(map(ptp, page, a.frame, "W" \in seg.flags, "X" \notin seg.flags),
                                 [a.mem EXCEPT ![a.frame] = seg.fill],
                                 page + PAGE_SIZE, page_end, seg)

\* load_elf over the PT_LOAD segments from the i-th on; load_max is the
\* largest segment end seen by the first pass.
RECURSIVE LoadSegs(_, _, _, _, _)
LoadSegs(img, i, ptp, areas, m) ==
    IF i > Len(img)
    THEN [ok |-> TRUE, pt |-> ptp, areas |-> areas, mem |-> m]
    ELSE LET seg        == img[i]
             page_vaddr == align_down(seg.vaddr, PAGE_SIZE)
             page_end   == align_up(seg.vaddr + seg.memsz, PAGE_SIZE)
             r          == LoadPages(ptp, m, page_vaddr, page_end, seg)
         IN  IF ~r.ok
             THEN [ok |-> FALSE, pt |-> r.pt, areas |-> areas, mem |-> r.mem]
             ELSE LoadSegs(img, i + 1, r.pt,
                           CHOOSE s \in add_vma(areas, page_vaddr, page_end, VmaFlagsOf(seg.flags)) : TRUE,
                           r.mem)

RECURSIVE LoadMax(_, _)
LoadMax(img, i) ==
    IF i > Len(img) THEN 0
    ELSE LET rest == LoadMax(img, i + 1)
             end  == img[i].vaddr + img[i].memsz
         IN  IF end > rest THEN end ELSE rest

EmptyPt == [q \in {} |-> Pte(0, FALSE, FALSE)]

load_elf(img, m) ==
    LET r == LoadSegs(img, 1, EmptyPt, <<>>, m)
    IN  [ok |-> r.ok, pt |-> r.pt, mem |-> r.mem,
         vm |-> [areas |-> r.areas, brk |-> align_up(LoadMax(img, 1), PAGE_SIZE)]]

\* The record kept of the last operation.
Last(op, pid, arg, ret, brk0, page, faults, outcome, first, again) ==
    [op |-> op, pid |-> pid, arg |-> arg, ret |-> ret, brk0 |-> brk0, page |-> page,
     faults |-> faults, outcome |-> outcome, first |-> first, again |-> again]

Alive(p) == p \in procs /\ exitc[p] = -1 /\ ~kpanic /\ nops < MaxOps

\* Inputs of the system calls.
FixedAddr == 536870912          \* 0x2000_0000
MAP_FIXED == 16
HugeLen == -4096                \* 0xFFFF_FFFF_FFFF_F000
\* mmap(addr, len, prot, flags): prot 3 is READ|WRITE, flags 34 is
\* MAP_PRIVATE|MAP_ANONYMOUS.
MmapCalls ==
    { <<0, 0, 3, 34>>, <<0, 5000, 3, 34>>, <<0, HugeLen, 3, 34>>,
      <<FixedAddr, 4096, 3, 34 + MAP_FIXED>>,
      <<FixedAddr + 100, 4096, 3, 34 + MAP_FIXED>> }
\* munmap(addr, len)
MunmapCalls == { <<FixedAddr, 8192>>, <<FixedAddr + 100, 4096>> }
UserLimit == 1073741824

BitSet(x, bit) == (x \div bit) % 2 = 1

VmInit ==
    LET r == load_elf(BootImage, << >>)
    IN  /\ procs = {1}
        /\ vm = (1 :> r.vm)
        /\ pt = (1 :> r.pt)
        /\ mem = r.mem
        /\ exitc = (1 :> -1)
        /\ build \in {[checked |-> TRUE], [checked |-> FALSE]}
        /\ kpanic = FALSE
        /\ last = Last("none", 0, 0, 0, 0, 0, 0, "none", FALSE, FALSE)
        /\ cow = << >>
        /\ nops = 0

\* syscall.rs mm::sys_mmap
SysMmap(p, addr, len, prot, flags) ==
    /\ Alive(p)
    /\ nops' = nops + 1
    /\ Len(vm[p].areas) < MaxVmas
    /\ LET fixed == addr # 0 /\ BitSet(flags, MAP_FIXED)
           vf    == {"ANONYMOUS"} \cup (IF BitSet(prot, 1) THEN {"READ"} ELSE {})
                                  \cup (IF BitSet(prot, 2) THEN {"WRITE"} ELSE {})
                                  \cup (IF BitSet(prot, 4) THEN {"EXEC"} ELSE {})
           virt  == IF fixed THEN addr ELSE vm[p].brk
           size  == PageMask(len + (PAGE_SIZE - 1))
           over  == U64Carry(len, PAGE_SIZE - 1) \/ U64Carry(virt, size)
       IN  IF len = 0
           THEN /\ last' = Last("mmap", p, len, -EINVAL, vm[p].brk, 0, 0, "error", FALSE, FALSE)
                /\ UNCHANGED <<vm, kpanic>>
           ELSE IF over /\ build.checked
           THEN /\ kpanic' = TRUE
                /\ last' = Last("mmap", p, len, 0, vm[p].brk, 0, 0, "panic", FALSE, FALSE)
                /\ UNCHANGED vm
           ELSE /\ \E areas \in add_vma(vm[p].areas, virt, virt + size, vf) :
                     vm' = [vm EXCEPT ![p] = [areas |-> areas,
                                              brk   |-> IF fixed THEN @.brk ELSE virt + size]]
                /\ last' = Last("mmap", p, len, virt, vm[p].brk, 0, 0, "ok", FALSE, FALSE)
                /\ UNCHANGED kpanic
    /\ UNCHANGED <<procs, pt, mem, exitc, build, cow, notVm>>

\* The pages the loop of sys_munmap visits.
MunmapPages(ptp, addr, end) == {q \in DOMAIN ptp : ULe(addr, q) /\ ULt(q, end)}

ForgetShared(c, p, pages) ==
    [k \in DOMAIN c |->
       IF p \in {k, c[k].parent}
       THEN [c[k] EXCEPT !.snap = [q \in DOMAIN c[k].snap \ pages |-> c[k].snap[q]]]
       ELSE c[k]]

\* syscall.rs mm::sys_munmap
SysMunmap(p, addr, len) ==
    /\ Alive(p)
    /\ nops' = nops + 1
    /\ IF addr % PAGE_SIZE # 0
       THEN /\ last' = Last("munmap", p, addr, -EINVAL, vm[p].brk, 0, 0, "error", FALSE, FALSE)
            /\ UNCHANGED <<vm, pt, cow>>
       ELSE LET end == addr + len
            IN  /\ vm' = [vm EXCEPT ![p].areas = remove_vma(@, addr, end)]
                /\ pt' = [pt EXCEPT ![p] = unmap(@, MunmapPages(@, addr, end))]
                /\ cow' = ForgetShared(cow, p, MunmapPages(pt[p], addr, end))
                /\ last' = Last("munmap", p, addr, 0, vm[p].brk, 0, 0, "ok", FALSE, FALSE)
    /\ UNCHANGED <<procs, mem, exitc, build, kpanic, notVm>>

\* syscall.rs mm::sys_brk
SysBrk(p, nb) ==
    /\ Alive(p)
    /\ nops' = nops + 1
    /\ Len(vm[p].areas) < MaxVmas
    /\ IF nb = 0 \/ ULt(nb, vm[p].brk)
       THEN /\ last' = Last("brk", p, nb, vm[p].brk, vm[p].brk, 0, 0, "ok", FALSE, FALSE)
            /\ UNCHANGED vm
       ELSE /\ \E areas \in add_vma(vm[p].areas, vm[p].brk, nb, {"READ", "WRITE", "ANONYMOUS"}) :
                 vm' = [vm EXCEPT ![p] = [areas |-> areas, brk |-> nb]]
            /\ last' = Last("brk", p, nb, nb, vm[p].brk, 0, 0, "ok", FALSE, FALSE)
    /\ UNCHANGED <<procs, pt, mem, exitc, build, kpanic, cow, notVm>>

\* What fork shared: the pages present in the parent with the value each
\* held, those that lost a write bit, and the pages either side has stored
\* to since.
Shared(parent, ptp, space, m) ==
    [parent   |-> parent,
     snap     |-> [q \in DOMAIN ptp |-> m[ptp[q].frame]],
     frame    |-> [q \in DOMAIN ptp |-> ptp[q].frame],
     stripped |-> {q \in DOMAIN ptp : ptp[q].user /\ ptp[q].w},
     anon     |-> {q \in DOMAIN ptp :
                     LET v == find_vma(space.areas, q)
                     IN  v.found /\ {"WRITE", "ANONYMOUS"} \subseteq v.vma.flags},
     wp       |-> {},
     wc       |-> {}]

Sides(c) == {c, cow[c].parent}

WrittenBy(c, p) == IF p = c THEN cow[c].wc ELSE cow[c].wp

NoteWrite(c, p, page) ==
    [k \in DOMAIN c |->
       IF page \in DOMAIN c[k].snap /\ p = k THEN [c[k] EXCEPT !.wc = @ \cup {page}]
       ELSE IF page \in DOMAIN c[k].snap /\ p = c[k].parent THEN [c[k] EXCEPT !.wp = @ \cup {page}]
       ELSE c[k]]

\* Addresses a user program touches: the start of each of its areas, and
\* address 0.
TouchAddrs(space) ==
    {a \in {0} \cup {space.areas[i].start : i \in 1 .. Len(space.areas)} :
       a >= 0 /\ a < UserLimit}

\* What a program stores: a value other than the one it can see there.
StoreVals(ptp, m, addr) ==
    LET page == align_down(addr, PAGE_SIZE)
    IN  IF page \in DOMAIN ptp /\ m[ptp[page].frame] = 170 THEN {187} ELSE {170}

\* A user load (write = FALSE) or store at addr: the access, exc_page_fault
\* and handle_page_fault for each fault it takes, and SIGSEGV when a fault
\* is not handled (deliver_signal -> terminate_current(128 + 11)).
UserAccess(p, addr, write, val) ==
    /\ Alive(p)
    /\ nops' = nops + 1
    /\ addr \in TouchAddrs(vm[p])
    /\ LET page == align_down(addr, PAGE_SIZE)
           r    == Access(vm[p], pt[p], mem, addr, write, val, 0)
           first == write /\ \E c \in DOMAIN cow :
                       /\ p \in Sides(c) /\ page \in DOMAIN cow[c].snap
                       /\ page \in cow[c].stripped /\ page \notin WrittenBy(c, p)
           again == write /\ \E c \in DOMAIN cow :
                       /\ p \in Sides(c) /\ page \in DOMAIN cow[c].snap
                       /\ page \in cow[c].stripped /\ page \in WrittenBy(c, p)
       IN  /\ pt' = [pt EXCEPT ![p] = r.pt]
           /\ mem' = r.mem
           /\ exitc' = IF r.outcome = "ok" THEN exitc ELSE [exitc EXCEPT ![p] = 128 + SIGSEGV]
           /\ cow' = IF write /\ r.outcome = "ok" THEN NoteWrite(cow, p, page) ELSE cow
           /\ last' = Last(IF write THEN "write" ELSE "read", p, addr, r.value, vm[p].brk,
                           page, r.faults, r.outcome, first, again)
    /\ UNCHANGED <<procs, vm, build, kpanic, notVm>>

\* fork.rs sys_fork_simple: clone_address_space (clone_pt for the child,
\* make_cow_pt for the parent, clone_vmspace) and the new Process.
Fork(p) ==
    /\ Alive(p)
    /\ nops' = nops + 1
    /\ Cardinality(procs) < MaxProcs
    /\ LET child == Cardinality(procs) + 1
       IN  /\ procs' = procs \cup {child}
           /\ pt' = (child :> StripWrite(pt[p])) @@ [pt EXCEPT ![p] = StripWrite(@)]
           /\ vm' = (child :> clone_vmspace(vm[p])) @@ vm
           /\ exitc' = (child :> -1) @@ exitc
           /\ cow' = (child :> Shared(p, pt[p], vm[p], mem)) @@ cow
           /\ last' = Last("fork", p, 0, child, vm[p].brk, 0, 0, "ok", FALSE, FALSE)
    /\ UNCHANGED <<mem, build, kpanic, notVm>>

\* sys_fork_simple returning -ENOMEM. cloned = FALSE: clone_address_space
\* ran out of frames inside clone_pdpt and returned None before
\* make_cow_pml4. cloned = TRUE: clone_address_space returned the child's
\* tables, make_cow_pml4 included, and alloc_frames for the kernel stack
\* returned None. No Process is made and nothing is spawned.
ForkNoMem(p, cloned) ==
    /\ Alive(p)
    /\ nops' = nops + 1
    /\ pt' = IF cloned THEN [pt EXCEPT ![p] = StripWrite(@)] ELSE pt
    /\ last' = Last("fork", p, 0, -ENOMEM, vm[p].brk, 0, 0, "error", FALSE, FALSE)
    /\ UNCHANGED <<procs, vm, mem, exitc, build, kpanic, cow, notVm>>

ForgetImage(c, p) ==
    [k \in {j \in DOMAIN c : p \notin {j, c[j].parent}} |-> c[k]]

\* exec.rs exec: a fresh AddressSpace and VmSpace::new(), load_elf into
\* them, and the swap into the Process. A failed load leaves the process as
\* it was; the frames it took stay taken.
Exec(p, img) ==
    /\ Alive(p)
    /\ nops' = nops + 1
    /\ LET r == load_elf(img, mem)
       IN  /\ mem' = r.mem
           /\ IF r.ok
              THEN /\ pt' = [pt EXCEPT ![p] = r.pt]
                   /\ vm' = [vm EXCEPT ![p] = r.vm]
                   /\ cow' = ForgetImage(cow, p)
                   /\ last' = Last("exec", p, 0, 0, vm[p].brk, 0, 0, "ok", FALSE, FALSE)
              ELSE /\ UNCHANGED <<pt, vm, cow>>
                   /\ last' = Last("exec", p, 0, -ENOMEM, vm[p].brk, 0, 0, "error", FALSE, FALSE)
    /\ UNCHANGED <<procs, exitc, build, kpanic, notVm>>

\* Arguments of brk, taken around the caller's break.
BrkArgs(space) == {0, space.brk - PAGE_SIZE, space.brk + 100}

VmNext ==
    \/ \E p \in procs, c \in MmapCalls : SysMmap(p, c[1], c[2], c[3], c[4])
    \/ \E p \in procs, c \in MunmapCalls : SysMunmap(p, c[1], c[2])
    \/ \E p \in procs : \E nb \in BrkArgs(vm[p]) : SysBrk(p, nb)
    \/ \E p \in procs : \E addr \in TouchAddrs(vm[p]) : UserAccess(p, addr, FALSE, 0)
    \/ \E p \in procs : \E addr \in TouchAddrs(vm[p]) :
         \E val \in StoreVals(pt[p], mem, addr) : UserAccess(p, addr, TRUE, val)
    \/ \E p \in procs : Fork(p)
    \/ \E p \in procs, img \in Images : Exec(p, img)

----------------------------------------------------------------------------
(* proc.rs (scheduler), proc/fork.rs (sys_fork_simple, sys_waitpid),       *)
(* shell/builtins.rs (wait_foreground), shell/readline.rs, main.rs         *)
(*                                                                         *)
(* One CPU. A system call runs with interrupts off (SFMASK clears IF), so  *)
(* it is one step up to the point where schedule() switches away; the      *)
(* thread goes on from there when it is switched in again.                 *)

None == 0

\* Bounds of the scheduler model.
MaxPids == 4        \* pids handed out: idle, shell, one program, its children
MaxEvents == 3      \* system calls made and keys pressed

\* Process::DEFAULT_TIME_SLICE is 10 ticks; tick and schedule_impl only
\* count it down and restore it, so a short slice walks the same code.
DEFAULT_TIME_SLICE == 2
IDLE_PRIORITY == 255
SHELL_PRIORITY == 5
WNOHANG == 1
EPERM == 1
ECHILD == 10
ESRCH == 3
KB_BUF_SIZE == 256
IdlePid == 1
ShellPid == 2
ProgramPid == 3
\* Two user addresses for wstatus_ptr: StatusPtr lies in a page that is
\* present in the caller's page table (the committed top of the stack),
\* ColdPtr in an anonymous area no page of which has been touched yet.
StatusPtr == 4096
ColdPtr == 8192
\* What a process's memory holds at these addresses before any waitpid.
Unwritten == -1
NotPresent == -2
FreshMemory == (StatusPtr :> Unwritten) @@ (ColdPtr :> NotPresent)

\* AddressSpace::translate of a wstatus_ptr in the memory m of the caller.
translate_status(m, ptr) == m[ptr] # NotPresent

\* What the caller reads at ptr afterwards: a page not present is demand
\* paged from a zeroed frame.
ReadStatus(m, ptr) == IF m[ptr] = NotPresent THEN 0 ELSE m[ptr]

Proc(ppid, state, priority) ==
    [ppid |-> ppid, state |-> state, exit_code |-> 0, priority |-> priority,
     time_slice |-> DEFAULT_TIME_SLICE, base_slice |-> DEFAULT_TIME_SLICE]

IndexOf(q, pid) == CHOOSE i \in 1 .. Len(q) : q[i] = pid

RemoveAt(q, i) == SubSeq(q, 1, i - 1) \o SubSeq(q, i + 1, Len(q))

\* A pick_next that takes the first Runnable entry whatever its priority.
PickFirstRunnable(procs_, q) ==
    LET runnable == {i \in 1 .. Len(q) : procs_[q[i]].state = "Runnable"}
    IN  IF runnable = {}
        THEN [next |-> None, queue |-> q]
        ELSE LET first == CHOOSE i \in runnable : \A j \in runnable : i <= j
             IN  [next |-> q[first], queue |-> RemoveAt(q, first)]

\* RunQueue::pick_next: the first Runnable entry of least priority value,
\* taken out of the queue.
pick_next(procs_, q) ==
    LET runnable == {i \in 1 .. Len(q) : procs_[q[i]].state = "Runnable"}
    IN  IF runnable = {}
        THEN [next |-> None, queue |-> q]
        ELSE LET best == CHOOSE i \in runnable :
                           \A j \in runnable :
                              \/ procs_[q[i]].priority < procs_[q[j]].priority
                              \/ procs_[q[i]].priority = procs_[q[j]].priority /\ i <= j
             IN  [next |-> q[best], queue |-> RemoveAt(q, best)]

\* A schedule_impl that drops an outgoing Zombie as it drops a Dead process.
ScheduleDropsZombie(procs_, q, cur) ==
    LET p1 == IF cur # None /\ procs_[cur].state = "Running"
              THEN [procs_ EXCEPT ![cur].state = "Runnable",
                                  ![cur].time_slice = procs_[cur].base_slice]
              ELSE procs_
        q1 == IF cur # None /\ p1[cur].state \notin {"Dead", "Zombie"} THEN Append(q, cur) ELSE q
        pk == pick_next(p1, q1)
        p2 == IF pk.next # None THEN [p1 EXCEPT ![pk.next].state = "Running"] ELSE p1
    IN  [sproc |-> p2, queue |-> pk.queue, current |-> pk.next, old |-> cur, next |-> pk.next]

\* A schedule_impl that does not replenish the slice of the outgoing process.
ScheduleKeepsSlice(procs_, q, cur) ==
    LET p1 == IF cur # None /\ procs_[cur].state = "Running"
              THEN [procs_ EXCEPT ![cur].state = "Runnable"]
              ELSE procs_
        q1 == IF cur # None /\ p1[cur].state # "Dead" THEN Append(q, cur) ELSE q
        pk == pick_next(p1, q1)
        p2 == IF pk.next # None THEN [p1 EXCEPT ![pk.next].state = "Running"] ELSE p1
    IN  [sproc |-> p2, queue |-> pk.queue, current |-> pk.next, old |-> cur, next |-> pk.next]

\* A schedule_impl that leaves the process it picked in the queue.
ScheduleKeepsPick(procs_, q, cur) ==
    LET p1 == IF cur # None /\ procs_[cur].state = "Running"
              THEN [procs_ EXCEPT ![cur].state = "Runnable",
                                  ![cur].time_slice = procs_[cur].base_slice]
              ELSE procs_
        q1 == IF cur # None /\ p1[cur].state # "Dead" THEN Append(q, cur) ELSE q
        pk == pick_next(p1, q1)
        p2 == IF pk.next # None THEN [p1 EXCEPT ![pk.next].state = "Running"] ELSE p1
    IN  [sproc |-> p2, queue |-> q1, current |-> pk.next, old |-> cur, next |-> pk.next]

\* schedule_impl up to the context switch: the run queue afterwards, the
\* outgoing process (old) and the chosen one (next).
\* A schedule_impl that requeues the outgoing process without changing
\* its state.
ScheduleKeepsRunning(procs_, q, cur) ==
    LET q1 == IF cur # None /\ procs_[cur].state # "Dead" THEN Append(q, cur) ELSE q
        pk == pick_next(procs_, q1)
        p2 == IF pk.next # None THEN [procs_ EXCEPT ![pk.next].state = "Running"] ELSE procs_
    IN  [sproc |-> p2, queue |-> pk.queue, current |-> pk.next, old |-> cur, next |-> pk.next]

schedule_impl(procs_, q, cur) ==
    LET p1 == IF cur # None /\ procs_[cur].state = "Running"
              THEN [procs_ EXCEPT ![cur].state = "Runnable",
                                  ![cur].time_slice = procs_[cur].base_slice]
              ELSE procs_
        q1 == IF cur # None /\ p1[cur].state # "Dead" THEN Append(q, cur) ELSE q
        pk == pick_next(p1, q1)
        p2 == IF pk.next # None THEN [p1 EXCEPT ![pk.next].state = "Running"] ELSE p1
    IN  [sproc |-> p2, queue |-> pk.queue, current |-> pk.next, old |-> cur, next |-> pk.next]

\* The end of schedule_impl: context_switch saves the outgoing context and
\* loads the incoming one; jump_to_context only loads; with no next, or with
\* next the same process, schedule returns to its caller. cont is where the
\* caller goes on after schedule().
SwitchCpu(r, cont) ==
    IF r.next = None \/ r.next = r.old
    THEN [cpu |-> cpu, live |-> cont, ctx |-> ctx]
    ELSE IF r.old # None
         THEN [cpu |-> r.next, live |-> ctx[r.next], ctx |-> [ctx EXCEPT ![r.old] = cont]]
         ELSE [cpu |-> r.next, live |-> ctx[r.next], ctx |-> ctx]

\* A wake_up that wakes nobody.
WakeUpLost(procs_, q, pid) == procs_

\* A wake_up that makes the queued process Runnable whatever its state.
WakeUpAnyState(procs_, q, pid) ==
    LET hits == {i \in 1 .. Len(q) : q[i] = pid}
    IN  IF hits = {} THEN procs_ ELSE [procs_ EXCEPT ![pid].state = "Runnable"]

\* wake_up
wake_up(procs_, q, pid) ==
    LET hits == {i \in 1 .. Len(q) : q[i] = pid /\ procs_[q[i]].state = "Sleeping"}
    IN  IF hits = {} THEN procs_ ELSE [procs_ EXCEPT ![pid].state = "Runnable"]

\* wake_up_all_sleeping
wake_up_all_sleeping(procs_, q, cur) ==
    [k \in DOMAIN procs_ |->
       IF (k = cur \/ \E i \in 1 .. Len(q) : q[i] = k) /\ procs_[k].state = "Sleeping"
       THEN [procs_[k] EXCEPT !.state = "Runnable"]
       ELSE procs_[k]]

\* process_state
process_state(procs_, q, cur, pid) ==
    IF cur = pid \/ \E i \in 1 .. Len(q) : q[i] = pid THEN procs_[pid].state ELSE "None"

\* find_zombie_child: the first zombie in the queue whose ppid is the
\* current process and which the target admits.
find_zombie_child(procs_, q, cur, target) ==
    LET hits == {i \in 1 .. Len(q) :
                   /\ procs_[q[i]].ppid = cur
                   /\ (target = -1 \/ q[i] = target)
                   /\ procs_[q[i]].state = "Zombie"}
    IN  IF cur = None \/ hits = {}
        THEN None
        ELSE q[CHOOSE i \in hits : \A j \in hits : i <= j]

\* reap_zombie
reap_zombie(q, pid) == SelectSeq(q, LAMBDA x : x # pid)

\* The status word sys_waitpid stores: ((exit_code & 0xFF) as u32) << 8.
WStatus(exit_code) == (exit_code % 256) * 256

NoArgs == [target |-> 0, options |-> 0, ptr |-> 0]

NoWait == [caller |-> None, ret |-> 0, target |-> 0, options |-> 0, ptr |-> 0, status |-> 0]

NoExit == [done |-> FALSE, code |-> 0, how |-> "None", psleep |-> FALSE, pafter |-> "None"]

\* What sys_kill returns to a caller it does not terminate is 0 or -errno.
NoReturn == 1

\* no switch is pending
NoPend == [old |-> 0, next |-> 0]

NoKill == [caller |-> None, pid |-> 0, sig |-> 0, ret |-> 0]

\* exit codes and waitpid(pid, wstatus_ptr, options) calls of user programs
ExitCodes == {42, 300}
WaitCalls ==
    { <<-1, StatusPtr, 0>>, <<-1, ColdPtr, WNOHANG>>,
      <<ProgramPid + 1, 0, 0>>, <<ProgramPid + 1, StatusPtr, WNOHANG>> }

\* Positions at which the thread on the CPU runs with interrupts enabled:
\* user mode, the hlt of idle_task and of terminate_current, the loop of
\* wait_foreground, readline between two passes of read_char_blocking.
IfOn == {"user", "idle", "zombie", "shell_wait", "shell_read", "int80_scanned",
         "switching"}

\* main.rs has spawned idle and shell and called schedule(); the shell has
\* spawned a user program (cmd_run) and entered wait_foreground.
SchedInit ==
    /\ sproc = (IdlePid :> Proc(0, "Runnable", IDLE_PRIORITY))
            @@ (ShellPid :> Proc(0, "Running", SHELL_PRIORITY))
            @@ (ProgramPid :> Proc(ShellPid, "Runnable", 5))
    /\ queue = <<IdlePid, ProgramPid>>
    /\ current = ShellPid
    /\ cpu = ShellPid
    /\ live = "shell_wait"
    /\ ctx = (IdlePid :> "idle") @@ (ShellPid :> "shell_wait") @@ (ProgramPid :> "user")
    /\ wargs = [k \in {IdlePid, ShellPid, ProgramPid} |-> NoArgs]
    /\ ustatus = [k \in {IdlePid, ShellPid, ProgramPid} |-> FreshMemory]
    /\ nextpid = ProgramPid + 1
    /\ wlast = NoWait
    /\ retcount = [k \in {IdlePid, ShellPid, ProgramPid} |-> 0]
    /\ exited = [k \in {IdlePid, ShellPid, ProgramPid} |-> NoExit]
    /\ nev = 0
    /\ klast = NoKill
    /\ kbuf = 0
    /\ ran = 0

\* schedule() called by the thread on the CPU, which goes on at cont.
Schedule(procs_, cont) ==
    LET r  == schedule_impl(procs_, queue, current)
        sw == SwitchCpu(r, cont)
    IN  /\ sproc' = r.sproc
        /\ queue' = r.queue
        /\ current' = r.current
        /\ cpu' = sw.cpu
        /\ live' = sw.live
        /\ ctx' = sw.ctx
        /\ ran' = 0

\* sleep_current
SleepCurrent(cont) ==
    Schedule(IF current # None THEN [sproc EXCEPT ![current].state = "Sleeping"] ELSE sproc,
             cont)

\* proc.rs tick, from the timer interrupt.
Tick ==
    /\ live \in IfOn
    /\ current # None
    /\ LET p1 == IF sproc[current].time_slice > 0
                 THEN [sproc EXCEPT ![current].time_slice = @ - 1]
                 ELSE sproc
       IN  IF p1[current].time_slice = 0
           THEN Schedule(p1, live)
           ELSE /\ sproc' = p1
                /\ ran' = ran + 1
                /\ UNCHANGED <<queue, current, cpu, live, ctx>>
    /\ UNCHANGED <<wargs, ustatus, nextpid, wlast, retcount, exited, nev, klast, kbuf,
                   notSched>>

\* fork.rs sys_fork_simple, the scheduler's side of it.
SysFork(p) ==
    /\ cpu = p /\ live = "user" /\ current = p
    /\ nextpid <= MaxPids /\ nev < MaxEvents
    /\ nev' = nev + 1
    /\ LET child == nextpid
       IN  /\ nextpid' = nextpid + 1
           /\ sproc' = (child :> [Proc(p, "Runnable", sproc[p].priority) EXCEPT
                                    !.time_slice = sproc[p].base_slice,
                                    !.base_slice = sproc[p].base_slice]) @@ sproc
           /\ queue' = Append(queue, child)
           /\ ctx' = (child :> "user") @@ ctx
           /\ wargs' = (child :> NoArgs) @@ wargs
           /\ ustatus' = (child :> ustatus[p]) @@ ustatus
           /\ retcount' = (child :> 0) @@ retcount
           /\ exited' = (child :> NoExit) @@ exited
    /\ UNCHANGED <<current, cpu, live, wlast, klast, kbuf, ran, notSched>>

\* One pass of the loop of sys_waitpid by the thread on the CPU.
WaitpidLoop(p, target, ptr, options) ==
    LET z == find_zombie_child(sproc, queue, current, target)
        m1 == IF ptr # 0 /\ current # None /\ translate_status(ustatus[current], ptr)
              THEN [ustatus EXCEPT ![current][ptr] = WStatus(sproc[z].exit_code)]
              ELSE ustatus
    IN  IF z # None
        THEN /\ ustatus' = m1
             /\ queue' = reap_zombie(queue, z)
             /\ wlast' = [caller |-> p, ret |-> z, target |-> target, options |-> options,
                          ptr |-> ptr,
                          status |-> IF ptr # 0 THEN ReadStatus(m1[p], ptr) ELSE 0]
             /\ retcount' = [retcount EXCEPT ![z] = @ + 1]
             /\ live' = "user"
             /\ wargs' = [wargs EXCEPT ![p] = NoArgs]
             /\ UNCHANGED <<sproc, current, cpu, ctx, ran>>
        ELSE IF options % 2 = WNOHANG
        THEN /\ wlast' = [caller |-> p, ret |-> 0, target |-> target, options |-> options,
                          ptr |-> ptr, status |-> 0]
             /\ live' = "user"
             /\ wargs' = [wargs EXCEPT ![p] = NoArgs]
             /\ UNCHANGED <<sproc, queue, current, cpu, ctx, ustatus, retcount, ran>>
        ELSE /\ SleepCurrent("wait")
             /\ wargs' = [wargs EXCEPT ![p] = [target |-> target, options |-> options, ptr |-> ptr]]
             /\ UNCHANGED <<ustatus, wlast, retcount>>

\* fork.rs sys_waitpid, entered from user mode.
SysWaitpid(p, target, ptr, options) ==
    /\ cpu = p /\ live = "user" /\ sproc[p].ppid # 0
    /\ nev < MaxEvents
    /\ nev' = nev + 1
    /\ WaitpidLoop(p, target, ptr, options)
    /\ UNCHANGED <<nextpid, exited, klast, kbuf, notSched>>

\* proc.rs terminate_current up to its first schedule(); how is what
\* called it.
terminate_current(code, how) ==
    LET parent == IF current # None THEN sproc[current].ppid ELSE 0
        p1 == IF current # None
              THEN [sproc EXCEPT ![current].state = "Zombie", ![current].exit_code = code]
              ELSE sproc
        p2 == IF parent # 0 THEN wake_up(p1, queue, parent) ELSE p1
    IN  /\ Schedule(p2, "zombie")
        /\ exited' = IF current # None
                     THEN [exited EXCEPT ![current] =
                             [done   |-> TRUE,
                              code   |-> code,
                              how    |-> how,
                              psleep |-> /\ sproc[parent].state = "Sleeping"
                                         /\ ctx[parent] = "wait"
                                         /\ wargs[parent].options % 2 # WNOHANG
                                         /\ wargs[parent].target \in {-1, current},
                              pafter |-> p2[parent].state]]
                     ELSE exited

\* SYS_EXIT
SysExit(p, code) ==
    /\ cpu = p /\ live = "user" /\ sproc[p].ppid # 0
    /\ nev < MaxEvents
    /\ nev' = nev + 1
    /\ terminate_current(code, "exit")
    /\ UNCHANGED <<wargs, ustatus, nextpid, wlast, retcount, klast, kbuf, notSched>>

\* A sys_kill that looks at neither the parent of the target nor at whether
\* it is a kernel task.
SysKillUnchecked(procs_, q, cur, pid, sig) ==
    LET hits == {i \in 1 .. Len(q) : q[i] = pid}
        t == q[CHOOSE i \in hits : \A j \in hits : i <= j]
        killed == [procs_ EXCEPT ![t].state = "Zombie", ![t].exit_code = 128 + sig]
    IN  IF pid <= 0 \/ (sig # 9 /\ sig # 15)
        THEN [ret |-> -EINVAL, self |-> FALSE, sproc |-> procs_]
        ELSE IF cur = None
        THEN [ret |-> -ESRCH, self |-> FALSE, sproc |-> procs_]
        ELSE IF pid = cur
        THEN [ret |-> NoReturn, self |-> TRUE, sproc |-> procs_]
        ELSE IF hits = {}
        THEN [ret |-> -ESRCH, self |-> FALSE, sproc |-> procs_]
        ELSE IF procs_[t].state \in {"Zombie", "Dead"}
        THEN [ret |-> -ESRCH, self |-> FALSE, sproc |-> procs_]
        ELSE [ret |-> 0, self |-> FALSE, sproc |-> wake_up(killed, q, procs_[t].ppid)]

\* A sys_kill that lets any process kill any user process.
SysKillAnyone(procs_, q, cur, pid, sig) ==
    LET hits == {i \in 1 .. Len(q) : q[i] = pid}
        t == q[CHOOSE i \in hits : \A j \in hits : i <= j]
        killed == [procs_ EXCEPT ![t].state = "Zombie", ![t].exit_code = 128 + sig]
    IN  IF pid <= 0 \/ (sig # 9 /\ sig # 15)
        THEN [ret |-> -EINVAL, self |-> FALSE, sproc |-> procs_]
        ELSE IF cur = None
        THEN [ret |-> -ESRCH, self |-> FALSE, sproc |-> procs_]
        ELSE IF pid = cur
        THEN [ret |-> NoReturn, self |-> TRUE, sproc |-> procs_]
        ELSE IF hits = {}
        THEN [ret |-> -ESRCH, self |-> FALSE, sproc |-> procs_]
        ELSE IF procs_[t].ppid = 0
        THEN [ret |-> -EPERM, self |-> FALSE, sproc |-> procs_]
        ELSE IF procs_[t].state \in {"Zombie", "Dead"}
        THEN [ret |-> -ESRCH, self |-> FALSE, sproc |-> procs_]
        ELSE [ret |-> 0, self |-> FALSE, sproc |-> wake_up(killed, q, procs_[t].ppid)]

\* syscall.rs sys_kill up to its return or its call of terminate_current
\* (self): the value returned and the processes afterwards.
sys_kill(procs_, q, cur, pid, sig) ==
    LET hits == {i \in 1 .. Len(q) : q[i] = pid}
        t == q[CHOOSE i \in hits : \A j \in hits : i <= j]
        killed == [procs_ EXCEPT ![t].state = "Zombie", ![t].exit_code = 128 + sig]
    IN  IF pid <= 0 \/ (sig # 9 /\ sig # 15)
        THEN [ret |-> -EINVAL, self |-> FALSE, sproc |-> procs_]
        ELSE IF cur = None
        THEN [ret |-> -ESRCH, self |-> FALSE, sproc |-> procs_]
        ELSE IF pid = cur
        THEN [ret |-> NoReturn, self |-> TRUE, sproc |-> procs_]
        ELSE IF hits = {}
        THEN [ret |-> -ESRCH, self |-> FALSE, sproc |-> procs_]
        ELSE IF procs_[t].ppid = 0 \/ procs_[t].ppid # cur
        THEN [ret |-> -EPERM, self |-> FALSE, sproc |-> procs_]
        ELSE IF procs_[t].state \in {"Zombie", "Dead"}
        THEN [ret |-> -ESRCH, self |-> FALSE, sproc |-> procs_]
        ELSE [ret |-> 0, self |-> FALSE, sproc |-> wake_up(killed, q, procs_[t].ppid)]

\* kill(pid, sig) calls of user programs
KillCalls ==
    { <<0, 9>>, <<ProgramPid + 1, 7>>, <<ProgramPid + 1, 9>>, <<ProgramPid, 15>>,
      <<IdlePid, 9>> }

\* SYS_KILL
SysKill(p, pid, sig) ==
    /\ cpu = p /\ live = "user" /\ sproc[p].ppid # 0
    /\ nev < MaxEvents
    /\ nev' = nev + 1
    /\ LET r == sys_kill(sproc, queue, current, pid, sig)
       IN  /\ klast' = [caller |-> p, pid |-> pid, sig |-> sig, ret |-> r.ret]
           /\ IF r.self
              THEN terminate_current(128 + sig, "kill")
              ELSE /\ sproc' = r.sproc
                   /\ exited' = IF r.ret = 0
                                THEN [exited EXCEPT ![pid] =
                                        [done   |-> TRUE,
                                         code   |-> 128 + sig,
                                         how    |-> "killed",
                                         psleep |-> FALSE,
                                         pafter |-> IF sproc[pid].ppid \in DOMAIN sproc
                                                    THEN r.sproc[sproc[pid].ppid].state
                                                    ELSE "None"]]
                                ELSE exited
                   /\ UNCHANGED <<queue, current, cpu, live, ctx, ran>>
    /\ UNCHANGED <<wargs, ustatus, nextpid, wlast, retcount, kbuf, notSched>>

\* The Signal enum of idt.rs.
SIGILL == 4
SIGBUS == 7
SIGFPE == 8

\* interrupt_dispatch for an exception raised in user mode (frame.cs & 3
\* = 3), by vector: 6 #UD, 12 #SS, 13 #GP, 14 #PF that handle_page_fault
\* did not handle, 16 #MF, 17 #AC, 19 #XM. The handler panics or calls
\* deliver_signal with a signal.
exception_handler(vector) ==
    CASE vector = 6  -> [panic |-> FALSE, sig |-> SIGILL]
      [] vector = 12 -> [panic |-> TRUE,  sig |-> 0]
      [] vector = 13 -> [panic |-> FALSE, sig |-> SIGSEGV]
      [] vector = 14 -> [panic |-> FALSE, sig |-> SIGSEGV]
      [] vector = 16 -> [panic |-> FALSE, sig |-> SIGFPE]
      [] vector = 17 -> [panic |-> FALSE, sig |-> SIGBUS]
      [] vector = 19 -> [panic |-> FALSE, sig |-> SIGFPE]

\* The exceptions user programs raise: one for each outcome of the table
\* (#GP ends as #PF does, #XM as #MF does).
UserFaults == {6, 12, 14, 16, 17}

ExcName(vector) ==
    CASE vector = 6  -> "#UD"
      [] vector = 12 -> "#SS"
      [] vector = 13 -> "#GP"
      [] vector = 14 -> "#PF"
      [] vector = 16 -> "#MF"
      [] vector = 17 -> "#AC"
      [] vector = 19 -> "#XM"

\* An exception in user mode: the handler panics, which halts the CPU with
\* interrupts off, or deliver_signal calls terminate_current(128 + sig).
UserFault(p, vector) ==
    /\ cpu = p /\ live = "user" /\ sproc[p].ppid # 0
    /\ nev < MaxEvents
    /\ nev' = nev + 1
    /\ LET h == exception_handler(vector)
       IN  IF h.panic
           THEN /\ live' = "panic"
                /\ UNCHANGED <<sproc, queue, current, cpu, ctx, ran, exited>>
           ELSE terminate_current(128 + h.sig, ExcName(vector))
    /\ UNCHANGED <<wargs, ustatus, nextpid, wlast, retcount, klast, kbuf, notSched>>

\* A reader that goes to sleep without looking at the buffer.
ReadCharSleeps ==
    /\ SleepCurrent("shell_read")
    /\ UNCHANGED kbuf

\* shell/readline.rs read_char_blocking, one pass of its loop with
\* interrupts off from cli to the context switch: a byte of KB_BUF is
\* returned to readline, which calls again, or the shell sleeps.
read_char_blocking ==
    IF kbuf > 0
    THEN /\ kbuf' = kbuf - 1
         /\ UNCHANGED <<sproc, queue, current, cpu, live, ctx, ran>>
    ELSE /\ SleepCurrent("shell_read")
         /\ UNCHANGED kbuf

\* A thread switched in inside the kernel goes on: the loop of sys_waitpid
\* after sleep_current, the loop of terminate_current, the loop of
\* read_char_blocking.
Resume ==
    /\ live \in {"wait", "zombie", "shell_read"}
    /\ IF live = "wait"
       THEN /\ WaitpidLoop(cpu, wargs[cpu].target, wargs[cpu].ptr, wargs[cpu].options)
            /\ UNCHANGED kbuf
       ELSE /\ IF live = "zombie"
               THEN Schedule(sproc, "zombie") /\ UNCHANGED kbuf
               ELSE read_char_blocking
            /\ UNCHANGED <<wargs, ustatus, wlast, retcount>>
    /\ UNCHANGED <<nextpid, exited, nev, klast, notSched>>

\* shell/builtins.rs wait_foreground: one pass of its loop; when the
\* program is gone the shell returns to readline.
ShellWait ==
    /\ cpu = ShellPid /\ live = "shell_wait"
    /\ IF process_state(sproc, queue, current, ProgramPid) \in {"None", "Dead", "Zombie"}
       THEN /\ live' = "shell_read"
            /\ UNCHANGED <<sproc, queue, current, cpu, ctx, ran>>
       ELSE Schedule(sproc, "shell_wait")
    /\ UNCHANGED <<wargs, ustatus, nextpid, wlast, retcount, exited, nev, klast, kbuf,
                   notSched>>

\* drivers/keyboard.rs process_scancode for the make code of a character:
\* KbBuffer::push, which drops the byte when the ring is full, then
\* wake_up_all_sleeping.
KeyboardIrq ==
    /\ live \in IfOn
    /\ nev < MaxEvents
    /\ nev' = nev + 1
    /\ kbuf' = IF kbuf + 1 < KB_BUF_SIZE THEN kbuf + 1 ELSE kbuf
    /\ sproc' = wake_up_all_sleeping(sproc, queue, current)
    /\ UNCHANGED <<queue, current, cpu, live, ctx, wargs, ustatus, nextpid, wlast,
                   retcount, exited, klast, ran, notSched>>

SchedNext ==
    \/ Tick
    \/ \E p \in DOMAIN sproc : SysFork(p)
    \/ \E p \in DOMAIN sproc, c \in WaitCalls : SysWaitpid(p, c[1], c[2], c[3])
    \/ \E p \in DOMAIN sproc, code \in ExitCodes : SysExit(p, code)
    \/ \E p \in DOMAIN sproc, c \in KillCalls : SysKill(p, c[1], c[2])
    \/ Resume
    \/ ShellWait
    \/ KeyboardIrq

\* The scheduler after the shell has yielded to the program and the
\* program has forked once.
ForkedInit ==
    /\ sproc = (IdlePid :> Proc(0, "Runnable", IDLE_PRIORITY))
            @@ (ShellPid :> Proc(0, "Runnable", SHELL_PRIORITY))
            @@ (ProgramPid :> Proc(ShellPid, "Running", 5))
            @@ (ProgramPid + 1 :> Proc(ProgramPid, "Runnable", 5))
    /\ queue = <<IdlePid, ShellPid, ProgramPid + 1>>
    /\ current = ProgramPid
    /\ cpu = ProgramPid
    /\ live = "user"
    /\ ctx = (IdlePid :> "idle") @@ (ShellPid :> "shell_wait") @@ (ProgramPid :> "user")
             @@ (ProgramPid + 1 :> "user")
    /\ wargs = [k \in IdlePid .. ProgramPid + 1 |-> NoArgs]
    /\ ustatus = [k \in IdlePid .. ProgramPid + 1 |-> FreshMemory]
    /\ nextpid = ProgramPid + 2
    /\ wlast = NoWait
    /\ retcount = [k \in IdlePid .. ProgramPid + 1 |-> 0]
    /\ exited = [k \in IdlePid .. ProgramPid + 1 |-> NoExit]
    /\ nev = 0
    /\ klast = NoKill
    /\ kbuf = 0
    /\ ran = 0

\* What parent and child do from there.
\* wait_foreground on the shell's thread, which runs with IF set: the part
\* of schedule() under the run-queue lock. Dropping the guard sets IF again
\* before context_switch is reached.
ShellWaitLocked ==
    /\ cpu = ShellPid /\ live = "shell_wait"
    /\ IF process_state(sproc, queue, current, ProgramPid) \in {"None", "Dead", "Zombie"}
       THEN /\ live' = "shell_read"
            /\ UNCHANGED <<sproc, queue, current, ran, pend>>
       ELSE LET r == schedule_impl(sproc, queue, current)
            IN  /\ sproc' = r.sproc
                /\ queue' = r.queue
                /\ current' = r.current
                /\ ran' = 0
                /\ IF r.next = None \/ r.old = None \/ r.next = r.old
                   THEN live' = "shell_wait" /\ pend' = pend
                   ELSE live' = "switching" /\ pend' = [old |-> r.old, next |-> r.next]
    /\ UNCHANGED <<cpu, ctx, wargs, ustatus, nextpid, wlast, retcount, exited, nev, klast,
                   kbuf, notSchedYield>>

\* The end of that schedule(): context_switch(old_a, new_a) with the two
\* processes the locked part chose. A thread whose continuation was saved
\* into another process's context is left where it is.
ContextSwitch ==
    /\ live = "switching" /\ cpu = pend.old
    /\ cpu' = pend.next
    /\ live' = ctx[pend.next]
    /\ ctx' = [ctx EXCEPT ![pend.old] = "shell_wait"]
    /\ pend' = NoPend
    /\ UNCHANGED <<sproc, queue, current, wargs, ustatus, nextpid, wlast, retcount, exited,
                   nev, klast, kbuf, ran, notSchedYield>>

\* The scheduler with the shell's schedule() in its two parts.
YieldNext ==
    \/ Tick
    \/ \E p \in DOMAIN sproc : SysFork(p)
    \/ \E p \in DOMAIN sproc, c \in WaitCalls : SysWaitpid(p, c[1], c[2], c[3])
    \/ \E p \in DOMAIN sproc, code \in ExitCodes : SysExit(p, code)
    \/ Resume
    \/ ShellWaitLocked
    \/ ContextSwitch
    \/ KeyboardIrq

\* sys_waitpid entered through int 0x80, a trap gate, which leaves IF set:
\* the scan of find_zombie_child, after which the timer may interrupt
\* before sleep_current is called.
Int80Waitpid(p, target, ptr) ==
    /\ cpu = p /\ live = "user" /\ sproc[p].ppid # 0
    /\ nev < MaxEvents
    /\ nev' = nev + 1
    /\ IF find_zombie_child(sproc, queue, current, target) # None
       THEN WaitpidLoop(p, target, ptr, 0)
       ELSE /\ live' = "int80_scanned"
            /\ wargs' = [wargs EXCEPT ![p] = [target |-> target, options |-> 0, ptr |-> ptr]]
            /\ UNCHANGED <<sproc, queue, current, cpu, ctx, ustatus, wlast, retcount, ran>>
    /\ UNCHANGED <<nextpid, exited, klast, kbuf, notSched>>

\* The call of sleep_current that follows a scan that found no zombie.
Int80Sleep ==
    /\ live = "int80_scanned"
    /\ SleepCurrent("wait")
    /\ UNCHANGED <<wargs, ustatus, nextpid, wlast, retcount, exited, nev, klast, kbuf,
                   notSched>>

\* Programs that make their blocking waitpid through int 0x80; no key is
\* pressed.
Int80Next ==
    \/ Tick
    \/ \E p \in DOMAIN sproc, c \in {<<-1, StatusPtr>>, <<ProgramPid + 1, 0>>} :
          Int80Waitpid(p, c[1], c[2])
    \/ Int80Sleep
    \/ \E p \in DOMAIN sproc, code \in ExitCodes : SysExit(p, code)
    \/ \E p \in DOMAIN sproc, c \in KillCalls : SysKill(p, c[1], c[2])
    \/ Resume
    \/ ShellWait

ReapNext ==
    \/ Tick
    \/ \E p \in DOMAIN sproc, c \in WaitCalls : SysWaitpid(p, c[1], c[2], c[3])
    \/ \E p \in DOMAIN sproc, code \in ExitCodes : SysExit(p, code)
    \/ \E p \in DOMAIN sproc, c \in KillCalls : SysKill(p, c[1], c[2])
    \/ Resume
    \/ ShellWait
    \/ KeyboardIrq

FaultNext ==
    \/ SchedNext
    \/ \E p \in DOMAIN sproc, v \in UserFaults : UserFault(p, v)

----------------------------------------------------------------------------
(* syscall.rs, proc/fork.rs: system calls that go through a user pointer   *)

\* Bound of the user-pointer model.
MaxCalls == 2         \* system calls made

EFAULT == 14
EAGAIN == 11

\* Pages of the calling process, each mapped to a frame of its own or not
\* present; no two of the frames are neighbours in physical memory.
UserPages == 1 .. 3

FrameOf(page) == 16 * page

\* Where in a page the pointers of the calls point.
UserOffsets == {0, PAGE_SIZE - 8}

UserPtrs == {0} \cup {pg * PAGE_SIZE + off : pg \in UserPages, off \in UserOffsets}

\* translate returning None.
NoPhys == -1

\* AddressSpace::translate of a byte address: the physical address.
translate_user(ptp, vaddr) ==
    LET r == translate(ptp, vaddr \div PAGE_SIZE)
    IN  IF r.ok THEN r.frame * PAGE_SIZE + (vaddr % PAGE_SIZE) ELSE NoPhys

\* The frames of the bytes phys .. phys + len - 1 behind the HHDM.
FramesOf(phys, len) == {f \in 0 .. 16 * 4 : phys \div PAGE_SIZE <= f /\ f <= (phys + len - 1) \div PAGE_SIZE}

\* The loop of copy_to_user and of sys_write: translate, copy up to the end
\* of the page or of the chunk, go on; touched is the set of frames the
\* copies have touched.
RECURSIVE UserCopyLoop(_, _, _, _, _)
UserCopyLoop(ptp, addr, remaining, chunk, touched) ==
    IF remaining = 0
    THEN [ok |-> TRUE, touched |-> touched]
    ELSE LET phys == translate_user(ptp, addr)
             page_remaining == PAGE_SIZE - (addr % PAGE_SIZE)
             a == IF remaining < page_remaining THEN remaining ELSE page_remaining
             to_copy == IF a < chunk THEN a ELSE chunk
         IN  IF phys = NoPhys
             THEN [ok |-> FALSE, touched |-> touched]
             ELSE UserCopyLoop(ptp, addr + to_copy, remaining - to_copy, chunk,
                               touched \cup FramesOf(phys, to_copy))

\* fs::copy_to_user
copy_to_user(ptp, ptr, len) == UserCopyLoop(ptp, ptr, len, PAGE_SIZE, {})

\* fs::sys_write to fd 1: the return value and the frames read.
sys_write(ptp, buf, count) ==
    IF count = 0 THEN [ret |-> 0, touched |-> {}]
    ELSE IF buf = 0 THEN [ret |-> -EFAULT, touched |-> {}]
    ELSE LET r == UserCopyLoop(ptp, buf, count, 256, {})
         IN  [ret |-> IF r.ok THEN count ELSE -EFAULT, touched |-> r.touched]

\* fs::sys_read from fd 0 with kb bytes in KB_BUF.
sys_read(ptp, kb, buf, count) ==
    IF count = 0 THEN [ret |-> 0, touched |-> {}, kb |-> kb]
    ELSE IF buf = 0 THEN [ret |-> -EFAULT, touched |-> {}, kb |-> kb]
    ELSE IF kb = 0 THEN [ret |-> -EAGAIN, touched |-> {}, kb |-> kb]
    ELSE LET r == copy_to_user(ptp, buf, 1)
         IN  [ret |-> IF r.ok THEN 1 ELSE -EFAULT, touched |-> r.touched, kb |-> kb - 1]

\* misc::sys_uname and misc::sys_clock_gettime: one translate of ptr, then
\* len bytes written from there behind the HHDM (6 * 65 for utsname, two
\* u64 for the timespec).
WriteAtPtr(ptp, ptr, len) ==
    LET phys == translate_user(ptp, ptr)
    IN  IF ptr = 0 \/ phys = NoPhys
        THEN [ret |-> -EFAULT, touched |-> {}]
        ELSE [ret |-> 0, touched |-> FramesOf(phys, len)]

sys_uname(ptp, ptr) == WriteAtPtr(ptp, ptr, 65 * 6)

sys_clock_gettime(ptp, ptr) == WriteAtPtr(ptp, ptr, 2 * 8)

\* sys_waitpid that has found a zombie child: the store of the u32 status.
sys_waitpid_found(ptp, wstatus_ptr, child_pid) ==
    LET phys == translate_user(ptp, wstatus_ptr)
    IN  [ret |-> child_pid,
         touched |-> IF wstatus_ptr # 0 /\ phys # NoPhys THEN FramesOf(phys, 4) ELSE {}]

ULast(call, ptr, len, ret, touched) ==
    [call |-> call, ptr |-> ptr, len |-> len, ret |-> ret, touched |-> touched]

\* A user process with some of its pages present, perhaps a key waiting.
UserInit ==
    /\ \E present \in SUBSET UserPages :
          upt = [q \in present |-> Pte(FrameOf(q), TRUE, FALSE)]
    /\ ukb \in 0 .. 1
    /\ ulast = ULast("none", 0, 0, 0, {})
    /\ ucalls = 0

USysWrite(buf, count) ==
    /\ ucalls < MaxCalls
    /\ ucalls' = ucalls + 1
    /\ LET r == sys_write(upt, buf, count)
       IN  ulast' = ULast("write", buf, count, r.ret, r.touched)
    /\ UNCHANGED <<upt, ukb, notUser>>

USysRead(buf) ==
    /\ ucalls < MaxCalls
    /\ ucalls' = ucalls + 1
    /\ LET r == sys_read(upt, ukb, buf, 1)
       IN  /\ ulast' = ULast(IF ukb = 0 THEN "read none" ELSE "read", buf, 1, r.ret, r.touched)
           /\ ukb' = r.kb
    /\ UNCHANGED <<upt, notUser>>

USysUname(ptr) ==
    /\ ucalls < MaxCalls
    /\ ucalls' = ucalls + 1
    /\ LET r == sys_uname(upt, ptr)
       IN  ulast' = ULast("uname", ptr, 65 * 6, r.ret, r.touched)
    /\ UNCHANGED <<upt, ukb, notUser>>

USysClockGettime(ptr) ==
    /\ ucalls < MaxCalls
    /\ ucalls' = ucalls + 1
    /\ LET r == sys_clock_gettime(upt, ptr)
       IN  ulast' = ULast("clock_gettime", ptr, 2 * 8, r.ret, r.touched)
    /\ UNCHANGED <<upt, ukb, notUser>>

USysWait4(ptr) ==
    /\ ucalls < MaxCalls
    /\ ucalls' = ucalls + 1
    /\ LET r == sys_waitpid_found(upt, ptr, ProgramPid + 1)
       IN  ulast' = ULast(IF ptr = 0 THEN "wait4 null" ELSE "wait4", ptr, 4, r.ret, r.touched)
    /\ UNCHANGED <<upt, ukb, notUser>>

UserNext ==
    \/ \E buf \in UserPtrs, count \in {1, 16} : USysWrite(buf, count)
    \/ \E buf \in UserPtrs : USysRead(buf)
    \/ \E ptr \in UserPtrs : USysUname(ptr)
    \/ \E ptr \in UserPtrs : USysClockGettime(ptr)
    \/ \E ptr \in UserPtrs : USysWait4(ptr)

----------------------------------------------------------------------------
(* proc/fork.rs, arch/x86_64/syscall_entry.rs: the return of fork in the   *)
(* parent and in the child                                                 *)

\* What a word of memory or a register may hold: the two addresses behind
\* syscall instructions of the program, and some other value.
Words == {"after_fork", "after_other", "junk"}

NoFrame == [pushed |-> FALSE, rcx |-> "junk", r11 |-> "junk"]

NoChild == [state |-> "none", pid |-> 0, rsp |-> "none", rip |-> "none",
            rax |-> 0 - 1, rcx |-> "junk", r11 |-> "junk", popped |-> << >>]

\* The kernel stack block that alloc_frames hands to sys_fork_simple is not
\* cleared: the words from kstack_top on hold whatever the frames held.
ForkInit ==
    /\ kwords \in [1 .. 8 -> Words]
    /\ ksys = NoFrame
    /\ kchild = NoChild
    /\ kparent = NoReturn

\* syscall_entry for SYS_FORK: r11 and rcx, the user RFLAGS and the address
\* after the syscall instruction, are pushed on the caller's kernel stack.
ForkSyscallEntry ==
    /\ ~ksys.pushed
    /\ ksys' = [pushed |-> TRUE, rcx |-> "after_fork", r11 |-> "if_on"]
    /\ UNCHANGED <<kwords, kchild, kparent, notFork>>

\* sys_fork_simple: the child's context is the parent's with rsp at the top
\* of the new kernel stack and rip at fork_child_return; nothing is written
\* to the new stack. The parent returns the child's pid.
ForkSysFork ==
    /\ ksys.pushed /\ kchild.state = "none"
    /\ kchild' = [kchild EXCEPT !.state = "Runnable", !.pid = ProgramPid + 1,
                                !.rsp = "kstack_top", !.rip = "fork_child_return"]
    /\ kparent' = ProgramPid + 1
    /\ UNCHANGED <<kwords, ksys, notFork>>

\* jump_to_context to the child, then fork_child_return: rax is cleared,
\* r15, r14, r13, r12, rbp, rbx, rcx and r11 are popped from rsp upwards
\* and sysretq goes to rcx with RFLAGS r11.
ForkChildReturn ==
    /\ kchild.state = "Runnable"
    /\ kchild.rip = "fork_child_return" /\ kchild.rsp = "kstack_top"
    /\ kchild' = [kchild EXCEPT !.state = "Running", !.rax = 0,
                                !.popped = kwords,
                                !.rcx = kwords[7], !.r11 = kwords[8],
                                !.rip = kwords[7]]
    /\ UNCHANGED <<kwords, ksys, kparent, notFork>>

ForkNext ==
    \/ ForkSyscallEntry
    \/ ForkSysFork
    \/ ForkChildReturn

----------------------------------------------------------------------------
(* arch/x86_64/idt.rs irq_dispatch, arch/x86_64/pic.rs: the two 8259s      *)

\* The IRQ lines with a device behind them: timer, keyboard, the last line
\* of the master, the mouse and the last line of the slave.
IrqLines == {0, 1, 7, 12, 15}

\* The line of the master that the slave is cascaded on.
CascadeLine == 2

\* The 8259 on a non-specific EOI: the in-service line of highest priority,
\* the one of least number, is cleared.
NonSpecificEoi(isr) ==
    IF isr = {} THEN isr ELSE isr \ {CHOOSE l \in isr : \A k \in isr : l <= k}

\* pic::send_eoi
send_eoi(i1, i2, irq) ==
    [isr1 |-> NonSpecificEoi(i1), isr2 |-> IF irq >= 8 THEN NonSpecificEoi(i2) ELSE i2]

\* pic::is_spurious_irq7, pic::is_spurious_irq15: bit 7 of the ISR is clear.
is_spurious(isr) == 7 \notin isr

PLast(irq, spurious, log, in_service) ==
    [irq |-> irq, spurious |-> spurious, log |-> log, in_service |-> in_service]

\* An irq_dispatch that sends the EOI when the handler has returned, and
\* so not at all when the timer handler switches to another context.
IrqDispatchEoiLast(i1, i2, irq, switches) ==
    LET checked == IF irq \in {7, 15} THEN <<"check">> ELSE << >>
        e == send_eoi(i1, i2, irq)
    IN  IF irq = 7 /\ is_spurious(i1)
        THEN [isr1 |-> i1, isr2 |-> i2, log |-> checked, in_service |-> << >>]
        ELSE IF irq = 15 /\ is_spurious(i2)
        THEN [isr1 |-> NonSpecificEoi(i1), isr2 |-> i2,
              log |-> checked \o <<"eoi_master">>, in_service |-> << >>]
        ELSE IF irq = 0 /\ switches
        THEN [isr1 |-> i1, isr2 |-> i2, log |-> checked \o <<"handler">>,
              in_service |-> <<i1, i2>>]
        ELSE [isr1 |-> e.isr1, isr2 |-> e.isr2, log |-> checked \o <<"handler", "eoi">>,
              in_service |-> <<i1, i2>>]

\* irq_dispatch: what it does in order, the in-service registers when the
\* handler body runs and when it is over. switches: the timer handler ends
\* in a context switch and does not return here before the old context is
\* resumed.
irq_dispatch(i1, i2, irq, switches) ==
    LET checked == IF irq \in {7, 15} THEN <<"check">> ELSE << >>
        e == send_eoi(i1, i2, irq)
    IN  IF irq = 7 /\ is_spurious(i1)
        THEN [isr1 |-> i1, isr2 |-> i2, log |-> checked, in_service |-> << >>]
        ELSE IF irq = 15 /\ is_spurious(i2)
        THEN [isr1 |-> NonSpecificEoi(i1), isr2 |-> i2,
              log |-> checked \o <<"eoi_master">>, in_service |-> << >>]
        ELSE [isr1 |-> e.isr1, isr2 |-> e.isr2, log |-> checked \o <<"eoi", "handler">>,
              in_service |-> <<e.isr1, e.isr2>>]

\* After pic::init and sti: nothing raised, nothing in service.
PicInit ==
    /\ irr = {}
    /\ isr1 = {}
    /\ isr2 = {}
    /\ plast = PLast(None, FALSE, << >>, << >>)

\* A device raises its line.
DeviceRaise(l) ==
    /\ l \notin irr
    /\ irr' = irr \cup {l}
    /\ UNCHANGED <<isr1, isr2, plast, notPic>>

\* The line l can interrupt: no line of the same or a higher priority is
\* in service in its 8259, nor, for a line of the slave, in the master up
\* to the cascade line.
Deliverable(l) ==
    IF l < 8
    THEN \A k \in isr1 : k > l
    ELSE (\A k \in isr1 : k > CascadeLine) /\ (\A k \in isr2 : k > l - 8)

\* The CPU, with IF set, acknowledges the raised line of highest priority:
\* the 8259 puts it in service and the CPU runs irq_dispatch for it.
Interrupt(l, switches) ==
    /\ l \in irr /\ Deliverable(l)
    /\ \A k \in irr : Deliverable(k) => (IF l < 8 THEN l ELSE CascadeLine) <= (IF k < 8 THEN k ELSE CascadeLine)
    /\ switches => l = 0
    /\ LET a1 == isr1 \cup {IF l < 8 THEN l ELSE CascadeLine}
           a2 == IF l < 8 THEN isr2 ELSE isr2 \cup {l - 8}
           r  == irq_dispatch(a1, a2, l, switches)
       IN  /\ isr1' = r.isr1
           /\ isr2' = r.isr2
           /\ plast' = PLast(l, FALSE, r.log, r.in_service)
    /\ irr' = irr \ {l}
    /\ UNCHANGED notPic

\* The line l is dropped before the CPU acknowledges it: the 8259 answers
\* with its last line, 7 or 15, and puts nothing in service for it; for the
\* slave the master has the cascade line in service.
SpuriousInterrupt(l) ==
    /\ l \in irr /\ Deliverable(l)
    /\ LET a1 == IF l < 8 THEN isr1 ELSE isr1 \cup {CascadeLine}
           r  == irq_dispatch(a1, isr2, IF l < 8 THEN 7 ELSE 15, FALSE)
       IN  /\ isr1' = r.isr1
           /\ isr2' = r.isr2
           /\ plast' = PLast(IF l < 8 THEN 7 ELSE 15, TRUE, r.log, r.in_service)
    /\ irr' = irr \ {l}
    /\ UNCHANGED notPic

PicNext ==
    \/ \E l \in IrqLines : DeviceRaise(l)
    \/ \E l \in IrqLines, switches \in BOOLEAN : Interrupt(l, switches)
    \/ \E l \in IrqLines : SpuriousInterrupt(l)

----------------------------------------------------------------------------
(* sync/spinlock.rs and the order in which the kernel paths take locks     *)

RunQueueLock == <<"RunQueue", 0>>
PmmLock == <<"PMM", 0>>
KbBufLock == <<"KB_BUF", 0>>
ModsLock == <<"MODS", 0>>
ProcessLock(pid) == <<"Process", pid>>

Acq(l) == <<"lock", l>>
Rel(l) == <<"drop", l>>

\* A lock taken and dropped in one expression, p.lock().field.
Touch(l) == <<Acq(l), Rel(l)>>

\* The same for every process of q in turn.
RECURSIVE TouchEach(_)
TouchEach(q) == IF q = << >> THEN << >> ELSE Touch(ProcessLock(Head(q))) \o TouchEach(Tail(q))

\* current_process
CurrentProcessOps == Touch(RunQueueLock)

\* RunQueue::pick_next with every queued process Runnable: filter locks
\* each, min_by_key locks each.
PickNextOps(q) == TouchEach(q) \o TouchEach(q)

\* schedule_impl up to the context switch; old goes out, next comes in.
ScheduleOps(old, q, next) ==
    <<Acq(RunQueueLock), Acq(ProcessLock(old)), Rel(ProcessLock(old))>>
    \o PickNextOps(Append(q, old))
    \o Touch(ProcessLock(next))
    \o <<Rel(RunQueueLock)>>
    \o Touch(ProcessLock(next))
    \o <<Acq(ProcessLock(old)), Acq(ProcessLock(next)),
         Rel(ProcessLock(next)), Rel(ProcessLock(old))>>
    \o Touch(ProcessLock(old))
    \o Touch(ProcessLock(next))

\* tick
TickOps(cur, q, preempt) ==
    <<Acq(RunQueueLock), Acq(ProcessLock(cur)), Rel(ProcessLock(cur)), Rel(RunQueueLock)>>
    \o (IF preempt THEN ScheduleOps(cur, q, Head(q)) ELSE << >>)

\* process_scancode for a character, then wake_up_all_sleeping
KeyboardOps(cur, q) ==
    Touch(ModsLock) \o Touch(KbBufLock)
    \o <<Acq(RunQueueLock)>> \o TouchEach(q) \o Touch(ProcessLock(cur)) \o <<Rel(RunQueueLock)>>

\* vmm::handle_page_fault with a demand page or a copy on write
PageFaultOps(cur) ==
    CurrentProcessOps
    \o <<Acq(ProcessLock(cur))>> \o Touch(PmmLock) \o <<Rel(ProcessLock(cur))>>

\* sys_fork_simple
ForkOps(cur) ==
    CurrentProcessOps
    \o <<Acq(ProcessLock(cur))>> \o Touch(PmmLock) \o Touch(PmmLock)
    \o <<Rel(ProcessLock(cur))>>
    \o Touch(RunQueueLock)

\* terminate_current up to schedule(): the process is made a Zombie, then
\* wake_up looks for the parent, the last of the queue.
TerminateOps(cur, q) ==
    CurrentProcessOps \o Touch(ProcessLock(cur))
    \o <<Acq(RunQueueLock)>> \o TouchEach(q) \o <<Rel(RunQueueLock)>>

\* process_state of a process that is not there, called by the shell
ProcessStateOps(cur, q) ==
    <<Acq(RunQueueLock)>> \o Touch(ProcessLock(cur)) \o TouchEach(q) \o <<Rel(RunQueueLock)>>

\* The paths, with IF as it is when they are entered: interrupt gates and
\* SYSCALL (SFMASK) clear it, the shell thread runs with it set.
LockPath(name, cur, q) ==
    CASE name = "tick"          -> [name |-> name, irq |-> TRUE, if |-> FALSE, ops |-> TickOps(cur, q, FALSE)]
      [] name = "tick_preempt"  -> [name |-> name, irq |-> TRUE, if |-> FALSE, ops |-> TickOps(cur, q, TRUE)]
      [] name = "keyboard"      -> [name |-> name, irq |-> TRUE, if |-> FALSE, ops |-> KeyboardOps(cur, q)]
      [] name = "page_fault"    -> [name |-> name, irq |-> TRUE, if |-> FALSE, ops |-> PageFaultOps(cur)]
      [] name = "fork"          -> [name |-> name, irq |-> FALSE, if |-> FALSE, ops |-> ForkOps(cur)]
      [] name = "terminate"     -> [name |-> name, irq |-> FALSE, if |-> FALSE, ops |-> TerminateOps(cur, q)]
      [] name = "process_state" -> [name |-> name, irq |-> FALSE, if |-> TRUE, ops |-> ProcessStateOps(cur, q)]
      [] name = "schedule"      -> [name |-> name, irq |-> FALSE, if |-> TRUE, ops |-> ScheduleOps(cur, q, Head(q))]

PathNames == {"tick", "tick_preempt", "keyboard", "page_fault", "fork", "terminate",
              "process_state", "schedule"}

NoPath == [name |-> "none", irq |-> FALSE, if |-> FALSE, ops |-> << >>]

\* A SpinLock::lock that leaves the interrupts as they are.
SpinLockNoCli(guards, if, l) ==
    [held |-> Append(guards, [lock |-> l, rflags_if |-> if]), if |-> if]

\* SpinLock::lock: cli returns the RFLAGS it found, the guard keeps them.
SpinLock_lock(guards, if, l) ==
    [held |-> Append(guards, [lock |-> l, rflags_if |-> if]), if |-> FALSE]

\* SpinGuard::drop: the lock is released and sti runs if the kept RFLAGS
\* had IF set.
SpinGuard_drop(guards, if, l) ==
    LET i == CHOOSE k \in 1 .. Len(guards) : guards[k].lock = l
    IN  [held |-> SubSeq(guards, 1, i - 1) \o SubSeq(guards, i + 1, Len(guards)),
         if |-> IF guards[i].rflags_if THEN TRUE ELSE if]

LockInit ==
    /\ lheld = << >>
    /\ lif = TRUE
    /\ lpath = NoPath
    /\ lpc = 0

\* A path is entered when the one before is over.
LockPathStart(name, cur, q) ==
    /\ lpc = Len(lpath.ops)
    /\ lpath' = LockPath(name, cur, q)
    /\ lpc' = 0
    /\ lif' = LockPath(name, cur, q).if
    /\ UNCHANGED <<lheld, notLock>>

LockAcquire ==
    /\ lpc < Len(lpath.ops)
    /\ lpath.ops[lpc + 1][1] = "lock"
    /\ \A k \in 1 .. Len(lheld) : lheld[k].lock # lpath.ops[lpc + 1][2]
    /\ LET r == SpinLock_lock(lheld, lif, lpath.ops[lpc + 1][2])
       IN  lheld' = r.held /\ lif' = r.if
    /\ lpc' = lpc + 1
    /\ UNCHANGED <<lpath, notLock>>

LockRelease ==
    /\ lpc < Len(lpath.ops)
    /\ lpath.ops[lpc + 1][1] = "drop"
    /\ LET r == SpinGuard_drop(lheld, lif, lpath.ops[lpc + 1][2])
       IN  lheld' = r.held /\ lif' = r.if
    /\ lpc' = lpc + 1
    /\ UNCHANGED <<lpath, notLock>>

LockNext ==
    \/ \E name \in PathNames :
          \/ LockPathStart(name, ShellPid, <<IdlePid, ProgramPid>>)
          \/ LockPathStart(name, ProgramPid, <<IdlePid, ShellPid>>)
    \/ LockAcquire
    \/ LockRelease

----------------------------------------------------------------------------
(* mm/vmm.rs: the page-table tree of one AddressSpace                      *)

\* Bounds of the page-table model.
MaxTableFrames == 3   \* frames alloc_zeroed_frame can still hand out
MaxPtOps == 3         \* map, map_large and unmap calls

LARGE_SIZE == 2097152     \* 2 * 1024 * 1024

\* The frame of the PML4, and the frames handed out after it.
Pml4Phys == 1048576
TableFrame(k) == Pml4Phys + k * PAGE_SIZE

\* An entry of a PageTable: PTE_PRESENT, PTE_LARGE, the address field and
\* the other flag bits.
TEntry(present, large, addr, flags) ==
    [present |-> present, large |-> large, addr |-> addr, flags |-> flags]

ZeroEntry == TEntry(FALSE, FALSE, 0, {})

pml4_idx(vaddr) == ((vaddr \div 1073741824) \div 512) % 512
pdpt_idx(vaddr) == (vaddr \div 1073741824) % 512
pd_idx(vaddr) == (vaddr \div LARGE_SIZE) % 512
pt_idx(vaddr) == (vaddr \div PAGE_SIZE) % 512

\* PageTable::get_entry on the frame read as a page table.
get_entry(m, frame, idx) ==
    IF frame \in DOMAIN m /\ idx \in DOMAIN m[frame] THEN m[frame][idx] ELSE ZeroEntry

\* PageTable::set_entry
set_entry(m, frame, idx, e) ==
    IF frame \in DOMAIN m
    THEN [m EXCEPT ![frame] = (idx :> e) @@ @]
    ELSE (frame :> (idx :> e)) @@ m

\* PageTable::get_table: the frame the entry points to, whatever the entry
\* is, when it is present.
get_table(m, frame, idx) ==
    LET e == get_entry(m, frame, idx)
    IN  IF e.present THEN [some |-> TRUE, table |-> e.addr] ELSE [some |-> FALSE, table |-> 0]

\* PageTable::get_or_alloc_table on the state st = [mem, n].
get_or_alloc_table(st, frame, idx, flags) ==
    LET e == get_entry(st.mem, frame, idx)
    IN  IF e.present
        THEN [some |-> TRUE, table |-> e.addr, st |-> st]
        ELSE IF st.n >= MaxTableFrames
        THEN [some |-> FALSE, table |-> 0, st |-> st]
        ELSE LET phys == TableFrame(st.n + 1)
                 zeroed == [x \in DOMAIN st.mem \ {phys} |-> st.mem[x]]
             IN  [some  |-> TRUE,
                  table |-> phys,
                  st    |-> [mem |-> set_entry(zeroed, frame, idx,
                                               TEntry(TRUE, FALSE, phys, flags)),
                             n   |-> st.n + 1]]

ParentFlags == {"W", "U"}

\* AddressSpace::map
map_tree(st, virt, phys, flags) ==
    LET pdpt == get_or_alloc_table(st, Pml4Phys, pml4_idx(virt), ParentFlags)
    IN  IF ~pdpt.some THEN [ok |-> FALSE, st |-> pdpt.st]
        ELSE
    LET pd == get_or_alloc_table(pdpt.st, pdpt.table, pdpt_idx(virt), ParentFlags)
    IN  IF ~pd.some THEN [ok |-> FALSE, st |-> pd.st]
        ELSE
    LET ptab == get_or_alloc_table(pd.st, pd.table, pd_idx(virt), ParentFlags)
    IN  IF ~ptab.some THEN [ok |-> FALSE, st |-> ptab.st]
        ELSE [ok |-> TRUE,
              st |-> [ptab.st EXCEPT
                        !.mem = set_entry(ptab.st.mem, ptab.table, pt_idx(virt),
                                          TEntry(TRUE, FALSE, phys, flags))]]

\* AddressSpace::map_large, past its two alignment assertions.
map_large(st, virt, phys, flags) ==
    LET pdpt == get_or_alloc_table(st, Pml4Phys, pml4_idx(virt), ParentFlags)
    IN  IF ~pdpt.some THEN [ok |-> FALSE, st |-> pdpt.st]
        ELSE
    LET pd == get_or_alloc_table(pdpt.st, pdpt.table, pdpt_idx(virt), ParentFlags)
    IN  IF ~pd.some THEN [ok |-> FALSE, st |-> pd.st]
        ELSE [ok |-> TRUE,
              st |-> [pd.st EXCEPT
                        !.mem = set_entry(pd.st.mem, pd.table, pd_idx(virt),
                                          TEntry(TRUE, TRUE, phys, flags))]]

\* AddressSpace::unmap
unmap_tree(m, virt) ==
    LET pdpt == get_table(m, Pml4Phys, pml4_idx(virt))
    IN  IF ~pdpt.some THEN m
        ELSE
    LET pd == get_table(m, pdpt.table, pdpt_idx(virt))
    IN  IF ~pd.some THEN m
        ELSE
    LET ptab == get_table(m, pd.table, pd_idx(virt))
    IN  IF ~ptab.some THEN m
        ELSE set_entry(m, ptab.table, pt_idx(virt), ZeroEntry)

\* AddressSpace::translate: the physical address, or NoPhys for None.
translate_tree(m, virt) ==
    LET pdpt == get_table(m, Pml4Phys, pml4_idx(virt))
    IN  IF ~pdpt.some THEN NoPhys
        ELSE
    LET pd == get_table(m, pdpt.table, pdpt_idx(virt))
    IN  IF ~pd.some THEN NoPhys
        ELSE
    LET pd_entry == get_entry(m, pd.table, pd_idx(virt))
    IN  IF pd_entry.large THEN pd_entry.addr + (virt % LARGE_SIZE)
        ELSE
    LET ptab == get_table(m, pd.table, pd_idx(virt))
    IN  IF ~ptab.some THEN NoPhys
        ELSE
    LET entry == get_entry(m, ptab.table, pt_idx(virt))
    IN  IF ~entry.present THEN NoPhys ELSE entry.addr + (virt % PAGE_SIZE)

\* Page-aligned virtual and physical addresses and flags the callers pass.
PtVirts == {LARGE_SIZE, LARGE_SIZE + PAGE_SIZE, 2 * LARGE_SIZE}
PtPhys == {5 * PAGE_SIZE, 4 * LARGE_SIZE + PAGE_SIZE}
PtLargePhys == {4 * LARGE_SIZE}
PtFlags == {{}, {"W", "U"}}

TLast(op, virt, phys, ok, tr) ==
    [op |-> op, virt |-> virt, phys |-> phys, ok |-> ok, tr |-> tr]

\* AddressSpace::new_user: a zeroed PML4 (user half).
PtInit ==
    /\ tmem = (Pml4Phys :> << >>)
    /\ tframes = 0
    /\ tlast = TLast("none", 0, 0, FALSE, NoPhys)
    /\ tops = 0

PtRunning == tlast.op # "panic" /\ tops < MaxPtOps

\* map(virt, phys, flags), then translate(virt).
PtMap(virt, phys, flags) ==
    /\ PtRunning
    /\ LET r == map_tree([mem |-> tmem, n |-> tframes], virt, phys, flags)
       IN  /\ tmem' = r.st.mem
           /\ tframes' = r.st.n
           /\ tlast' = TLast("map", virt, phys, r.ok, translate_tree(r.st.mem, virt))
    /\ tops' = tops + 1
    /\ UNCHANGED notPt

\* map_large(virt, phys, flags), then translate(virt); the assertions
\* panic on an address that is not 2 MiB aligned.
PtMapLarge(virt, phys, flags) ==
    /\ PtRunning
    /\ IF virt % LARGE_SIZE # 0 \/ phys % LARGE_SIZE # 0
       THEN /\ tlast' = TLast("panic", virt, phys, FALSE, NoPhys)
            /\ UNCHANGED <<tmem, tframes>>
       ELSE LET r == map_large([mem |-> tmem, n |-> tframes], virt, phys, flags)
            IN  /\ tmem' = r.st.mem
                /\ tframes' = r.st.n
                /\ tlast' = TLast("map_large", virt, phys, r.ok,
                                  translate_tree(r.st.mem, virt))
    /\ tops' = tops + 1
    /\ UNCHANGED notPt

\* unmap(virt), then translate(virt).
PtUnmap(virt) ==
    /\ PtRunning
    /\ tmem' = unmap_tree(tmem, virt)
    /\ tlast' = TLast("unmap", virt, 0, TRUE, translate_tree(tmem', virt))
    /\ tops' = tops + 1
    /\ UNCHANGED <<tframes, notPt>>

PtNext ==
    \/ \E v \in PtVirts, ph \in PtPhys, f \in PtFlags : PtMap(v, ph, f)
    \/ \E v \in PtVirts, ph \in PtLargePhys, f \in PtFlags : PtMapLarge(v, ph, f)
    \/ \E v \in PtVirts : PtUnmap(v)

----------------------------------------------------------------------------
(* drivers/keyboard.rs: KbBuffer, the ring behind KB_BUF                   *)

\* Bound of the keyboard model.
MaxKbOps == 4       \* pushes and pops in one run

\* What pop returns for an empty ring (None).
NoByte == -1

\* KbBuffer::new
KbBuffer_new == [buf |-> [i \in 0 .. KB_BUF_SIZE - 1 |-> 0], head |-> 0, tail |-> 0]

\* A push that stores the byte and advances head whatever tail is.
KbPushOverwrites(b, c) ==
    [b EXCEPT !.buf[b.head] = c, !.head = (b.head + 1) % KB_BUF_SIZE]

\* KbBuffer::push
KbBuffer_push(b, c) ==
    LET next == (b.head + 1) % KB_BUF_SIZE
    IN  IF next # b.tail
        THEN [b EXCEPT !.buf[b.head] = c, !.head = next]
        ELSE b

\* KbBuffer::pop
KbBuffer_pop(b) ==
    IF b.head = b.tail
    THEN [c |-> NoByte, kb |-> b]
    ELSE [c |-> b.buf[b.tail], kb |-> [b EXCEPT !.tail = (b.tail + 1) % KB_BUF_SIZE]]

\* The bytes a push is made with (process_scancode, push_char).
Keys == {97, 98}

\* The queue of bytes a caller of push and pop is entitled to.
QueuePush(q, c) == IF Len(q) < KB_BUF_SIZE - 1 THEN Append(q, c) ELSE q

QueuePop(q) == IF q = << >> THEN q ELSE Tail(q)

\* The key that was typed into slot j of the ring.
KeyAt(j) == 99 + (j % 3)

\* The ring and the queue after k keys that were each read at once and n
\* more keys typed with nobody reading (n < KB_BUF_SIZE): push has filled
\* the slots k, k + 1, ... modulo KB_BUF_SIZE and moved head behind them.
Typed(k, n) ==
    [kb |-> [buf  |-> [j \in 0 .. KB_BUF_SIZE - 1 |->
                         IF (j - k + KB_BUF_SIZE) % KB_BUF_SIZE < n \/ j < k
                         THEN KeyAt(j)
                         ELSE 0],
             head |-> (k + n) % KB_BUF_SIZE,
             tail |-> k],
     kq |-> [i \in 1 .. n |-> KeyAt((k + i - 1) % KB_BUF_SIZE)]]

NoKbOp == [op |-> "none", c |-> NoByte, ret |-> NoByte, full |-> FALSE]

\* The ring at some time after boot: head anywhere, empty, nearly full or
\* full.
KbInit ==
    /\ \E k \in {0, KB_BUF_SIZE - 2}, n \in {0, 1, KB_BUF_SIZE - 2, KB_BUF_SIZE - 1} :
          kring = Typed(k, n).kb /\ kq = Typed(k, n).kq
    /\ kblast = NoKbOp
    /\ kbops = 0

\* process_scancode or push_char: KB_BUF.lock().push(c)
KbPush(c) ==
    /\ kbops < MaxKbOps
    /\ kbops' = kbops + 1
    /\ kring' = KbBuffer_push(kring, c)
    /\ kq' = QueuePush(kq, c)
    /\ kblast' = [op |-> "push", c |-> c, ret |-> NoByte,
                  full |-> Len(kq) = KB_BUF_SIZE - 1]
    /\ UNCHANGED notKb

\* read_char: KB_BUF.lock().pop()
KbPop ==
    /\ kbops < MaxKbOps
    /\ kbops' = kbops + 1
    /\ LET r == KbBuffer_pop(kring)
       IN  /\ kring' = r.kb
           /\ kblast' = [op |-> "pop", c |-> NoByte, ret |-> r.c, full |-> FALSE]
    /\ kq' = QueuePop(kq)
    /\ UNCHANGED notKb

KbNext ==
    \/ \E c \in Keys : KbPush(c)
    \/ KbPop

----------------------------------------------------------------------------
(* Specifications. Each one runs one subsystem and holds the others still. *)

KbParked ==
    /\ kring = KbBuffer_new
    /\ kq = << >>
    /\ kblast = NoKbOp
    /\ kbops = 0

YieldParked == pend = NoPend

PmmParked ==
    /\ lists = EmptyLists
    /\ held = {}
    /\ rt = RtIdle
    /\ merged = -1
    /\ free_pages = 0
    /\ total_pages = 0

VmParked ==
    /\ procs = {}
    /\ vm = << >>
    /\ pt = << >>
    /\ mem = << >>
    /\ exitc = << >>
    /\ build = [checked |-> TRUE]
    /\ kpanic = FALSE
    /\ last = Last("none", 0, 0, 0, 0, 0, 0, "none", FALSE, FALSE)
    /\ cow = << >>
    /\ nops = 0

SchedParked ==
    /\ sproc = << >>
    /\ queue = << >>
    /\ current = None
    /\ cpu = None
    /\ live = "boot"
    /\ ctx = << >>
    /\ wargs = << >>
    /\ ustatus = << >>
    /\ nextpid = 1
    /\ wlast = NoWait
    /\ retcount = << >>
    /\ exited = << >>
    /\ nev = 0
    /\ klast = NoKill
    /\ kbuf = 0
    /\ ran = 0

PtParked ==
    /\ tmem = << >>
    /\ tframes = 0
    /\ tlast = TLast("none", 0, 0, FALSE, NoPhys)
    /\ tops = 0

LockParked ==
    /\ lheld = << >>
    /\ lif = FALSE
    /\ lpath = NoPath
    /\ lpc = 0

PicParked ==
    /\ irr = {}
    /\ isr1 = {}
    /\ isr2 = {}
    /\ plast = PLast(None, FALSE, << >>, << >>)

ForkParked ==
    /\ kwords = << >>
    /\ ksys = NoFrame
    /\ kchild = NoChild
    /\ kparent = NoReturn

UserParked ==
    /\ upt = << >>
    /\ ukb = 0
    /\ ulast = ULast("none", 0, 0, 0, {})
    /\ ucalls = 0

InitPic == PicInit /\ PmmParked /\ VmParked /\ SchedParked /\ PtParked /\ UserParked /\ ForkParked /\ LockParked /\ YieldParked /\ KbParked

SpecPic == InitPic /\ [][PicNext]_vars

InitLock == LockInit /\ PmmParked /\ VmParked /\ SchedParked /\ PtParked /\ UserParked /\ ForkParked /\ PicParked /\ YieldParked /\ KbParked

SpecLock == InitLock /\ [][LockNext]_vars

InitUser == UserInit /\ PmmParked /\ VmParked /\ SchedParked /\ PtParked /\ ForkParked /\ PicParked /\ LockParked /\ YieldParked /\ KbParked

SpecUser == InitUser /\ [][UserNext]_vars

InitFork == ForkInit /\ PmmParked /\ VmParked /\ SchedParked /\ PtParked /\ UserParked /\ PicParked /\ LockParked /\ YieldParked /\ KbParked

SpecFork == InitFork /\ [][ForkNext]_vars

InitPMM == PmmInitState /\ VmParked /\ SchedParked /\ PtParked /\ UserParked /\ ForkParked /\ PicParked /\ LockParked /\ YieldParked /\ KbParked

SpecPMM == InitPMM /\ [][PmmNext]_vars

InitVM == VmInit /\ PmmParked /\ SchedParked /\ PtParked /\ UserParked /\ ForkParked /\ PicParked /\ LockParked /\ YieldParked /\ KbParked

SpecVM == InitVM /\ [][VmNext]_vars

\* The programs that only load, store, fork and exec.
AccessNext ==
    \/ \E p \in procs : \E addr \in TouchAddrs(vm[p]) : UserAccess(p, addr, FALSE, 0)
    \/ \E p \in procs : \E addr \in TouchAddrs(vm[p]) :
         \E val \in StoreVals(pt[p], mem, addr) : UserAccess(p, addr, TRUE, val)
    \/ \E p \in procs : Fork(p)
    \/ \E p \in procs, img \in Images : Exec(p, img)

SpecAccess == InitVM /\ [][AccessNext]_vars

\* The programs that load, store and fork, with forks that run out of
\* memory.
ForkNoMemNext ==
    \/ \E p \in procs : \E addr \in TouchAddrs(vm[p]) : UserAccess(p, addr, FALSE, 0)
    \/ \E p \in procs : \E addr \in TouchAddrs(vm[p]) :
         \E val \in StoreVals(pt[p], mem, addr) : UserAccess(p, addr, TRUE, val)
    \/ \E p \in procs : Fork(p)
    \/ \E p \in procs, cloned \in BOOLEAN : ForkNoMem(p, cloned)

SpecForkNoMem == InitVM /\ [][ForkNoMemNext]_vars

InitSched == SchedInit /\ PmmParked /\ VmParked /\ PtParked /\ UserParked /\ ForkParked /\ PicParked /\ LockParked /\ YieldParked /\ KbParked

InitPT == PtInit /\ PmmParked /\ VmParked /\ SchedParked /\ UserParked /\ ForkParked /\ PicParked /\ LockParked /\ YieldParked /\ KbParked

SpecPT == InitPT /\ [][PtNext]_vars

SpecSched == InitSched /\ [][SchedNext]_vars

\* Parent and child after the fork.
InitReap == ForkedInit /\ PmmParked /\ VmParked /\ PtParked /\ UserParked /\ ForkParked /\ PicParked /\ LockParked /\ YieldParked /\ KbParked

SpecReap == InitReap /\ [][ReapNext]_vars

\* The scheduler with user programs that raise exceptions.
SpecFault == InitSched /\ [][FaultNext]_vars

\* ENABLED <<Tick>>_vars and ENABLED <<Resume>>_vars as state predicates:
\* a tick always counts the slice down or switches, and a pass of a kernel
\* loop always returns or switches.
TickEnabled == live \in IfOn /\ current # None

ResumeEnabled == live \in {"wait", "zombie", "shell_read"}

\* The timer keeps interrupting, and a thread the CPU is executing inside
\* the kernel or in readline gets to execute between two timer ticks:
\* WF_vars(Tick) /\ SF_vars(Resume), written out as
\* []<>~ENABLED <<Tick>>_vars \/ []<><<Tick>>_vars  and
\* <>[]~ENABLED <<Resume>>_vars \/ []<><<Resume>>_vars.
SpecSchedFair ==
    /\ SpecSched
    /\ ([]<>(~TickEnabled) \/ []<><<Tick>>_vars)
    /\ (<>[](~ResumeEnabled) \/ []<><<Resume>>_vars)

InitKb == KbInit /\ PmmParked /\ VmParked /\ SchedParked /\ PtParked /\ UserParked /\ ForkParked /\ PicParked /\ LockParked /\ YieldParked

SpecKb == InitKb /\ [][KbNext]_vars

SpecYield == InitSched /\ [][YieldNext]_vars

SpecInt80 == InitReap /\ [][Int80Next]_vars

----------------------------------------------------------------------------
(* Claims about the PMM                                                    *)

FreeNodes(ls) == UNION {{<<o, i>> : i \in 1 .. Len(ls[o])} : o \in Orders}

NodeStart(ls, n) == ls[n[1]][n[2]]

NodeEnd(ls, n) == ls[n[1]][n[2]] + BlockSize(n[1])

\* C10: after any sequence of alloc and matching free operations, every block
\* on free list k is aligned to 2^k pages and no two blocks on the free lists
\* overlap.
C10_AlignedDisjoint ==
    /\ \A n \in FreeNodes(lists) : NodeStart(lists, n) % BlockSize(n[1]) = 0
    /\ \A n, m \in FreeNodes(lists) :
           n # m => \/ NodeEnd(lists, n) <= NodeStart(lists, m)
                    \/ NodeEnd(lists, m) <= NodeStart(lists, n)

\* A free has coalesced through two orders while another block is still held.
C10_Witness ==
    /\ rt.phase = "idle"
    /\ held # {}
    /\ merged >= 2

----------------------------------------------------------------------------
(* Claims about address spaces                                             *)

Content(p, page) == mem[pt[p][page].frame]

BothMap(c, page) == page \in DOMAIN pt[c] /\ page \in DOMAIN pt[cow[c].parent]

\* C3: after fork, a store by the parent or the child to a writable
\* anonymous page they share succeeds, and the other side never sees it:
\* while neither has stored to the page both read the same contents, and
\* once only one side has stored to it the other still reads what the page
\* held at the fork.
C3_CowIsolation ==
    \A c \in DOMAIN cow : \A page \in cow[c].anon \cap DOMAIN cow[c].snap :
        /\ (last.op = "write" /\ last.pid \in Sides(c) /\ last.page = page)
              => last.outcome = "ok"
        /\ BothMap(c, page) =>
              /\ page \notin cow[c].wp \cup cow[c].wc
                    => Content(c, page) = Content(cow[c].parent, page)
              /\ page \in cow[c].wp \ cow[c].wc => Content(c, page) = cow[c].snap[page]
              /\ page \in cow[c].wc \ cow[c].wp
                    => Content(cow[c].parent, page) = cow[c].snap[page]

\* The store of C3's example ends in SIGSEGV: the writer is terminated with
\* exit code 139 and the page keeps what it held at the fork.
C3_StoreAfterForkKilled ==
    /\ last.op = "write" /\ last.outcome = "sigsegv"
    /\ exitc[last.pid] = 128 + SIGSEGV
    /\ \E c \in DOMAIN cow :
          /\ last.pid \in Sides(c)
          /\ last.page \in cow[c].anon
          /\ cow[c].snap[last.page] = 170
          /\ Content(last.pid, last.page) = 170

OtherSide(c, p) == IF p = c THEN cow[c].parent ELSE c

\* C4: after fork, the first store by either side to a page that was
\* shared with its write bit cleared takes exactly one page fault, the fault
\* is handled, and the writer ends with a writable leaf on a frame no other
\* process maps; a later store by that side to that page takes no fault;
\* the other side, until it stores to the page itself, keeps the read-only
\* leaf on the shared frame.
C4_OneFaultPrivateCopy ==
    /\ (last.op = "write" /\ last.first) =>
          /\ last.outcome = "ok"
          /\ last.faults = 1
          /\ pt[last.pid][last.page].w
          /\ \A q \in procs \ {last.pid} : \A g \in DOMAIN pt[q] :
                pt[q][g].frame # pt[last.pid][last.page].frame
          /\ \A c \in DOMAIN cow :
                (/\ last.pid \in Sides(c)
                 /\ last.page \in DOMAIN cow[c].snap
                 /\ last.page \in DOMAIN pt[OtherSide(c, last.pid)]
                 /\ last.page \notin WrittenBy(c, OtherSide(c, last.pid)))
                => /\ pt[OtherSide(c, last.pid)][last.page].frame = cow[c].frame[last.page]
                   /\ ~pt[OtherSide(c, last.pid)][last.page].w
    /\ (last.op = "write" /\ last.again) => (last.outcome = "ok" /\ last.faults = 0)

\* The first store takes its one fault and the router refuses it.
C4_FirstStoreUnhandled ==
    /\ last.op = "write" /\ last.first
    /\ last.faults = 1 /\ last.outcome = "sigsegv"
    /\ ~pt[last.pid][last.page].w

\* C5: after fork, in the parent and in the child, a user leaf whose write
\* bit fork cleared and which is still read-only lies in an area that
\* carries COPY_ON_WRITE.
C5_StrippedInCowVma ==
    \A c \in DOMAIN cow : \A p \in Sides(c) :
        \A page \in cow[c].stripped \cap DOMAIN cow[c].snap :
            (page \in DOMAIN pt[p] /\ ~pt[p][page].w) =>
                LET v == find_vma(vm[p].areas, page)
                IN  v.found /\ "COPY_ON_WRITE" \in v.vma.flags

\* Right after fork the parent's data page is read-only in an area that
\* fork left without COPY_ON_WRITE.
C5_ParentLeafOutsideCow ==
    /\ last.op = "fork"
    /\ \E c \in DOMAIN cow : \E page \in cow[c].stripped :
          LET p == cow[c].parent
              v == find_vma(vm[p].areas, page)
          IN  /\ page \in DOMAIN pt[p] /\ ~pt[p][page].w
              /\ v.found /\ "WRITE" \in v.vma.flags
              /\ "COPY_ON_WRITE" \notin v.vma.flags

UMax(a, b) == IF ULt(a, b) THEN b ELSE a

UMin(a, b) == IF ULt(a, b) THEN a ELSE b

\* Two areas share an address.
Overlap(a, b) == ULt(UMax(a.start, b.start), UMin(a.end, b.end))

\* C6: in every VmSpace the areas are sorted by start and no two of them
\* share an address, whatever mmap, munmap, brk and the ELF loader did.
C6_VmasDisjointSorted ==
    \A p \in procs :
        LET areas == vm[p].areas
        IN  \A i, j \in 1 .. Len(areas) :
              i < j => /\ ULe(areas[i].start, areas[j].start)
                       /\ ~Overlap(areas[i], areas[j])

\* The same MAP_FIXED mmap issued twice leaves its area in the list twice.
C6_SameFixedTwice ==
    \E p \in procs : \E i, j \in 1 .. Len(vm[p].areas) :
        /\ i < j
        /\ vm[p].areas[i] = vm[p].areas[j]
        /\ vm[p].areas[i].start = FixedAddr
        /\ vm[p].areas[i].end = FixedAddr + PAGE_SIZE

\* C7: every page a process has mapped lies in one of its areas.
C7_MappedPageInVma ==
    \A p \in procs : \A page \in DOMAIN pt[p] : find_vma(vm[p].areas, page).found

\* A MAP_FIXED area that starts inside a page: the page demand paging maps
\* for it begins below the area.
C7_PageBelowArea ==
    \E p \in procs :
        /\ FixedAddr \in DOMAIN pt[p]
        /\ ~find_vma(vm[p].areas, FixedAddr).found
        /\ find_vma(vm[p].areas, FixedAddr + 100).found

\* C8: a brk or mmap call never lowers the caller's break; brk(0) and
\* brk(nb) with nb below the break return the break and change nothing;
\* brk(nb) with nb above the break returns nb and sets the break to it.
C8_BrkMonotonic ==
    [][ \A p \in procs :
          (nops' # nops /\ last'.pid = p /\ last'.op \in {"brk", "mmap"}) =>
             /\ ULe(vm[p].brk, vm'[p].brk)
             /\ (last'.op = "brk" /\ (last'.arg = 0 \/ ULt(last'.arg, vm[p].brk)))
                   => (last'.ret = vm[p].brk /\ vm'[p] = vm[p])
             /\ (last'.op = "brk" /\ ULt(vm[p].brk, last'.arg))
                   => (last'.ret = last'.arg /\ vm'[p].brk = last'.arg) ]_vars


\* mmap(0, 0xFFFF_FFFF_FFFF_F000) returned and the break is a page lower.
C8_BreakWrapped ==
    /\ last.op = "mmap" /\ last.arg = HugeLen /\ last.outcome = "ok"
    /\ vm[last.pid].brk = last.brk0 - PAGE_SIZE


----------------------------------------------------------------------------
(* Claims about exit and waitpid. *)

\* C1: for a child that exited with code c, sys_waitpid returns the child's
\* pid to its parent and leaves (c & 0xFF) << 8 at wstatus_ptr, and no pid
\* is returned by sys_waitpid more than once.
C1_StatusAndOnce ==
    /\ \A c \in DOMAIN retcount : retcount[c] <= 1
    /\ wlast.ret # 0 =>
         /\ exited[wlast.ret].done
         /\ sproc[wlast.ret].ppid = wlast.caller
         /\ wlast.target \in {-1, wlast.ret}
         /\ wlast.ptr # 0 => wlast.status = (exited[wlast.ret].code % 256) * 256

\* The child exited with 42 and was returned, and the word at wstatus_ptr,
\* in a page not yet present, reads 0.
C1_StatusDropped ==
    /\ wlast.ret # 0
    /\ exited[wlast.ret].code = 42
    /\ wlast.ptr = ColdPtr
    /\ wlast.status = 0

\* The child has exited while its parent slept in a blocking waitpid for it.
ExitedUnderWait(c) == c \in DOMAIN exited /\ exited[c].done /\ exited[c].psleep

\* sys_waitpid has returned c.
ReturnedToParent(c) == c \in DOMAIN retcount /\ retcount[c] = 1

----------------------------------------------------------------------------
(* Claims about the page-table tree. *)

\* C12: after map(v, p, flags) or map_large(v, p, flags) succeeds,
\* translate(v) returns p, and after unmap(v) translate(v) returns none.
C12_MapTranslateRoundTrip ==
    /\ tlast.op \in {"map", "map_large"} /\ tlast.ok => tlast.tr = tlast.phys
    /\ tlast.op = "unmap" => tlast.tr = NoPhys

\* unmap(v) has run on a 2 MiB mapping and translate(v) still returns its
\* frame.
C12_LargeSurvivesUnmap ==
    /\ tlast.op = "unmap"
    /\ tlast.virt = LARGE_SIZE
    /\ tlast.tr = 4 * LARGE_SIZE


----------------------------------------------------------------------------
(* Claims about the scheduler. *)

\* A step in which schedule_impl chose a process: current changed, or the
\* outgoing process was chosen again and its slice restored.
Decided ==
    \/ current' # current
    \/ current # None /\ sproc'[current].time_slice > sproc[current].time_slice

\* The queue the choice was made from: the old queue with the outgoing
\* process appended.
DecisionQueue == IF current # None THEN Append(queue, current) ELSE queue

\* The entries of that queue that were Runnable when the choice was made.
WasRunnable(i) ==
    \/ DecisionQueue[i] = current'
    \/ sproc'[DecisionQueue[i]].state = "Runnable"

\* C13: every scheduling decision selects, among the Runnable processes in
\* the queue, one of the lowest priority value, and among several of that
\* value the one that entered the queue earliest.
C13_LowestPriorityEarliest ==
    [][Decided =>
         IF current' = None
         THEN \A i \in 1 .. Len(DecisionQueue) : ~WasRunnable(i)
         ELSE \E n \in 1 .. Len(DecisionQueue) :
                /\ DecisionQueue[n] = current'
                /\ \A i \in 1 .. Len(DecisionQueue) :
                      WasRunnable(i) =>
                         \/ sproc'[current'].priority < sproc'[DecisionQueue[i]].priority
                         \/ /\ sproc'[current'].priority = sproc'[DecisionQueue[i]].priority
                            /\ n <= i]_vars

\* A child of the program is running, chosen while the idle task, the shell
\* and the program were Runnable in the queue.
C13_Witness ==
    /\ current = ProgramPid + 1
    /\ \A k \in {IdlePid, ShellPid, ProgramPid} :
          /\ sproc[k].state = "Runnable"
          /\ \E i \in 1 .. Len(queue) : queue[i] = k

\* C14: after any sequence of fork, schedule, tick, sleep_current, wake_up,
\* terminate_current, kill and waitpid, the process `current` refers to is
\* not an element of `queue`, and no process is in `queue` twice.
C14_CurrentOutsideQueue ==
    /\ \A i \in 1 .. Len(queue) : queue[i] # current
    /\ \A i, j \in 1 .. Len(queue) : i # j => queue[i] # queue[j]

\* A child was forked, killed by its parent and reaped by waitpid, and the
\* scheduler has a current process and others queued.
C14_Witness ==
    /\ \E c \in DOMAIN exited : exited[c].how = "killed" /\ retcount[c] = 1
    /\ current # None
    /\ Len(queue) >= 2

\* The tasks the scheduler holds that are Runnable or Running with the
\* priority of the current one.
EqualPriorityTasks ==
    {k \in DOMAIN sproc :
       /\ k = current \/ \E i \in 1 .. Len(queue) : queue[i] = k
       /\ sproc[k].state \in {"Runnable", "Running"}
       /\ sproc[k].priority = sproc[current].priority}

\* C15: with exactly two Runnable tasks of equal priority and timer ticks
\* arriving, a task, once selected, receives at least base_slice ticks
\* before the timer hands the CPU to the other task.
C15_FullSliceBeforeOther ==
    [][(/\ Tick
        /\ current # None
        /\ live = "user"
        /\ current' # current
        /\ Cardinality(EqualPriorityTasks) = 2)
       => ran + 1 >= sproc[current].base_slice]_vars

\* A user process, one of two Runnable tasks of its priority, has been
\* selected with less than base_slice ticks left: it had used part of its
\* slice when it went to sleep in waitpid.
C15_PickedWithPartialSlice ==
    /\ current # None
    /\ live = "user"
    /\ ran = 0
    /\ sproc[current].time_slice < sproc[current].base_slice
    /\ Cardinality(EqualPriorityTasks) = 2

\* What the processes are after wake_up(pid) if it does what is said of it.
WakeUpExpected(pid) ==
    IF pid \in DOMAIN sproc /\ sproc[pid].state = "Sleeping"
    THEN [sproc EXCEPT ![pid].state = "Runnable"]
    ELSE sproc

\* C16: wake_up(pid) changes the process with that pid from Sleeping to
\* Runnable whenever that process is Sleeping, and changes no process state
\* otherwise: so for every pid in every state the scheduler reaches, and so
\* for the parent a terminating process has woken.
C16_WakeUpOnlySleepingTarget ==
    /\ \A pid \in 0 .. MaxPids : wake_up(sproc, queue, pid) = WakeUpExpected(pid)
    /\ \A c \in DOMAIN exited :
          exited[c].done /\ exited[c].psleep => exited[c].pafter = "Runnable"

\* terminate_current has woken a parent that slept in waitpid, and the
\* parent is Runnable in the queue behind a Zombie.
C16_Witness ==
    \E c \in DOMAIN exited :
       /\ exited[c].done /\ exited[c].psleep
       /\ exited[c].pafter = "Runnable"
       /\ sproc[sproc[c].ppid].state = "Runnable"
       /\ sproc[c].state = "Zombie"
       /\ \E i \in 1 .. Len(queue) : queue[i] = sproc[c].ppid

\* The shell is in readline, inside or between passes of read_char_blocking.
ShellReading ==
    IF cpu = ShellPid THEN live = "shell_read" ELSE ctx[ShellPid] = "shell_read"

\* C17: the blocking keyboard read (cli, check the buffer, sleep_current)
\* never loses a wakeup: under every interleaving of keyboard interrupts
\* with the reader, the reader is not Sleeping while a byte is in the
\* buffer, and a byte in the buffer is eventually returned to it.
C17_NoLostWakeup ==
    /\ [](ShellReading /\ kbuf > 0 => sproc[ShellPid].state # "Sleeping")
    /\ (ShellReading /\ kbuf > 0) ~> (kbuf = 0)

\* A key arrived while the shell slept in read_char_blocking: the byte is
\* in the buffer and the shell is Runnable in the queue.
C17_Witness ==
    /\ ShellReading
    /\ kbuf > 0
    /\ cpu # ShellPid
    /\ sproc[ShellPid].state = "Runnable"
    /\ \E i \in 1 .. Len(queue) : queue[i] = ShellPid

\* A step of sys_kill.
KillStep == \E p \in DOMAIN sproc, c \in KillCalls : SysKill(p, c[1], c[2])

\* C18: kill(pid, sig) is accepted only for sig in {9, 15} and pid > 0 and
\* only when the caller is the target's parent or the target itself;
\* otherwise it returns -EINVAL (bad sig or pid), -EPERM (the target is not
\* the caller's child, a kernel task with ppid 0 included) or -ESRCH (no
\* such live process) and leaves every process's state and exit_code as
\* they were.
C18_KillChecksCaller ==
    [][KillStep =>
         LET k == klast'
             known == k.pid \in DOMAIN sproc
             queued == \E i \in 1 .. Len(queue) : queue[i] = k.pid
         IN  /\ k.ret \in {0, NoReturn, -EINVAL, -EPERM, -ESRCH}
             /\ k.ret = NoReturn => k.sig \in {9, 15} /\ k.pid = k.caller
             /\ k.ret = 0 =>
                   /\ k.sig \in {9, 15} /\ k.pid > 0
                   /\ known /\ sproc[k.pid].ppid = k.caller
             /\ k.ret = -EINVAL <=> ~(k.sig \in {9, 15} /\ k.pid > 0)
             /\ k.ret = -EPERM =>
                   known /\ k.pid # k.caller /\ sproc[k.pid].ppid # k.caller
             /\ k.ret = -ESRCH =>
                   \/ ~known
                   \/ ~queued
                   \/ sproc[k.pid].state \in {"Zombie", "Dead"}
             /\ k.ret \notin {0, NoReturn} =>
                   \A q \in DOMAIN sproc :
                      /\ sproc'[q].state = sproc[q].state
                      /\ sproc'[q].exit_code = sproc[q].exit_code]_vars

\* The child has asked to kill the program that forked it and was refused
\* with -EPERM; both are as they were.
C18_Witness ==
    /\ klast.ret = -EPERM
    /\ klast.caller = ProgramPid + 1
    /\ klast.pid = ProgramPid
    /\ sproc[ProgramPid].state \in {"Runnable", "Running", "Sleeping"}
    /\ sproc[ProgramPid].exit_code = 0

\* c was killed by its parent: sys_kill returned 0 for it.
KilledByParent(c) == c \in DOMAIN exited /\ exited[c].how = "killed"

\* The killed child is Zombie with exit_code 128+sig, its parent is awake
\* after the call, and the child is not on the CPU.
KilledIsZombie ==
    \A c \in DOMAIN exited :
       KilledByParent(c) =>
          /\ sproc[c].state = "Zombie"
          /\ exited[c].code \in {128 + 9, 128 + 15}
          /\ sproc[c].exit_code = exited[c].code
          /\ exited[c].pafter \in {"Running", "Runnable"}
          /\ cpu # c /\ current # c

\* A waitpid of the parent for a killed child that is not reaped yet
\* returns the child's pid.
KilledIsReturned ==
    \A p \in DOMAIN sproc, w \in WaitCalls, c \in DOMAIN exited :
       (/\ SysWaitpid(p, w[1], w[2], w[3])
        /\ KilledByParent(c) /\ retcount[c] = 0
        /\ sproc[c].ppid = p /\ w[1] = c)
       => wlast'.ret = c

\* C19: a successful kill(child, sig) by the parent sets the child to
\* Zombie with exit_code 128+sig and wakes the child's parent; the killed
\* child never runs again, and a subsequent waitpid by the parent returns
\* its pid with status ((128+sig) & 0xFF) << 8.
C19_KilledChildIsReaped ==
    /\ []KilledIsZombie
    /\ [][KilledIsReturned]_vars
    /\ [](KilledByParent(wlast.ret) =>
             /\ wlast.caller = sproc[wlast.ret].ppid
             /\ wlast.ptr # 0 => wlast.status = WStatus(exited[wlast.ret].code))

\* sys_waitpid has returned the pid of a child killed with SIGKILL, and
\* the word the parent finds at wstatus_ptr is not 137 << 8.
C19_KilledStatusDropped ==
    /\ KilledByParent(wlast.ret)
    /\ exited[wlast.ret].code = 128 + 9
    /\ wlast.caller = sproc[wlast.ret].ppid
    /\ wlast.ptr # 0
    /\ wlast.status # WStatus(128 + 9)

\* The exit of process c was forced by an exception.
Faulted(c) == c \in DOMAIN exited /\ exited[c].how \in {ExcName(v) : v \in UserFaults}

\* C20: a fault raised in user mode (#UD, #SS, #GP, #AC, unhandled #PF, FPU
\* faults) never panics the kernel: it terminates only the current user
\* process, which becomes Zombie with exit_code 128+signal; an unhandled
\* page fault gives 139, for which the waitpid status word is 35584.
C20_UserFaultNeverPanics ==
    /\ [](live # "panic")
    /\ [](\A c \in DOMAIN exited :
            Faulted(c) =>
               /\ sproc[c].state = "Zombie"
               /\ sproc[c].exit_code = exited[c].code
               /\ exited[c].code \in {128 + SIGILL, 128 + SIGBUS, 128 + SIGFPE, 128 + SIGSEGV}
               /\ exited[c].how = "#PF" =>
                     exited[c].code = 139 /\ WStatus(sproc[c].exit_code) = 35584)
    /\ [][\A p \in DOMAIN sproc, v \in UserFaults :
            UserFault(p, v) =>
               \A q \in DOMAIN sproc \ {p} :
                  sproc'[q].state = "Zombie" <=> sproc[q].state = "Zombie"]_vars

\* A user program has raised an exception and the kernel has panicked: the
\* program is still Running and current, and no process runs any more.
C20_KernelPanicked ==
    /\ live = "panic"
    /\ cpu = current
    /\ sproc[cpu].ppid # 0
    /\ sproc[cpu].state = "Running"

Held(c) == c = current \/ \E i \in 1 .. Len(queue) : queue[i] = c

HeldAfter(c) == c = current' \/ \E i \in 1 .. Len(queue') : queue'[i] = c

\* C22: a Zombie stays in the run queue until its parent's waitpid reaps
\* it: a step after which the scheduler no longer holds a process it held,
\* which is a Zombie then, is a return of sys_waitpid, with the zombie's pid, to the process whose pid
\* is the zombie's ppid.
C22_OnlyParentReaps ==
    [][\A c \in DOMAIN sproc :
          (sproc'[c].state = "Zombie" /\ Held(c) /\ ~HeldAfter(c)) =>
             /\ wlast'.ret = c
             /\ wlast'.caller = sproc[c].ppid
             /\ cpu = sproc[c].ppid
             /\ retcount'[c] = retcount[c] + 1]_vars

\* A child exited while its parent was not waiting, stayed in the queue as
\* a Zombie over the schedule() of terminate_current, and was reaped by a
\* later waitpid of its parent.
C22_Witness ==
    \E c \in DOMAIN exited :
       /\ exited[c].done /\ ~exited[c].psleep
       /\ sproc[c].state = "Zombie"
       /\ ~Held(c)
       /\ retcount[c] = 1
       /\ wlast.ret = c /\ wlast.caller = sproc[c].ppid

\* Process p has no child the scheduler holds.
NoChildren(p) == \A k \in DOMAIN sproc : sproc[k].ppid = p => ~Held(k)

\* C23: after a child has been reaped, a second waitpid call for it by a
\* caller with no remaining children returns -ECHILD.
C23_SecondWaitIsEchild ==
    [][\A p \in DOMAIN sproc, w \in WaitCalls, c \in DOMAIN retcount :
          (/\ SysWaitpid(p, w[1], w[2], w[3])
           /\ retcount[c] = 1 /\ sproc[c].ppid = p
           /\ w[1] \in {-1, c}
           /\ NoChildren(p))
          => /\ wlast'.caller = p
             /\ wlast'.ret = -ECHILD
             /\ cpu' = p /\ live' = "user"]_vars

\* The parent has reaped its only child and called waitpid again: it
\* sleeps in sys_waitpid with no child left to wake it.
C23_SleepsWithoutChildren ==
    \E c \in DOMAIN retcount :
       /\ retcount[c] = 1
       /\ wlast.ret = c /\ wlast.caller = sproc[c].ppid
       /\ NoChildren(sproc[c].ppid)
       /\ sproc[sproc[c].ppid].state = "Sleeping"
       /\ cpu # sproc[c].ppid /\ ctx[sproc[c].ppid] = "wait"
       /\ wargs[sproc[c].ppid].target \in {-1, c}


----------------------------------------------------------------------------
(* Claims about user pointers                                              *)

\* The pages of the bytes the last call was given.
PagesOfLast ==
    {pg \in 0 .. 4 : ulast.ptr \div PAGE_SIZE <= pg
                     /\ pg <= (ulast.ptr + ulast.len - 1) \div PAGE_SIZE}

\* C24: every system call that reads or writes through a user pointer
\* (read, write, the wait4 status, uname, clock_gettime) fails with -EFAULT
\* when the user address is not mapped in the current address space, and
\* touches no memory for such an address: what it touches are frames that
\* pages of the user range are mapped to.
C24_UnmappedIsEfault ==
    ulast.call \in {"write", "read", "uname", "clock_gettime", "wait4"} =>
       /\ (\E pg \in PagesOfLast : pg \notin DOMAIN upt) => ulast.ret = -EFAULT
       /\ ulast.touched \subseteq {upt[pg].frame : pg \in PagesOfLast \cap DOMAIN upt}

\* uname was given a pointer into a present page, returned 0, and has
\* written to the frame that follows the frame of that page in physical
\* memory, which is no frame of the caller.
C24_UnameWritesNextFrame ==
    /\ ulast.call = "uname"
    /\ ulast.ret = 0
    /\ \E f \in ulast.touched : \A pg \in DOMAIN upt : upt[pg].frame # f


----------------------------------------------------------------------------
(* Claims about fork                                                       *)

\* C25: a successful fork adds one Runnable process whose pid is new and
\* whose parent is the caller; the parent's fork returns that pid, and the
\* child, when it is first scheduled, returns from the same system call,
\* to the address after the parent's syscall instruction, with result 0.
C25_ForkReturnsTwice ==
    /\ kchild.state # "none" =>
          /\ kparent = kchild.pid
          /\ kchild.pid # ProgramPid
    /\ kchild.state = "Running" =>
          /\ kchild.rax = 0
          /\ kchild.rip = ksys.rcx

\* The child has been scheduled for the first time and has left the kernel
\* at an address that is not the one after the parent's fork.
C25_ChildReturnsElsewhere ==
    /\ kchild.state = "Running"
    /\ kchild.rax = 0
    /\ kchild.rip # ksys.rcx


----------------------------------------------------------------------------
(* Claims about the outgoing process of schedule()                         *)

\* The step is a schedule() that has taken process c off the CPU.
SwitchedOut(c) == current = c /\ current' # c

InQueueAfter(c) == \E i \in 1 .. Len(queue') : queue'[i] = c

\* C26 as stated: in schedule() an outgoing Running process becomes
\* Runnable with its slice replenished and is requeued, and an outgoing
\* process that is Sleeping or Zombie is not requeued by schedule().
C26_SleepingNotRequeued ==
    [][\A c \in DOMAIN sproc : SwitchedOut(c) =>
          /\ sproc'[c].state = "Runnable" =>
                InQueueAfter(c) /\ sproc'[c].time_slice = sproc'[c].base_slice
          /\ sproc'[c].state \in {"Sleeping", "Zombie"} => ~InQueueAfter(c)]_vars

\* C26, amended: in schedule() an outgoing Running process becomes Runnable
\* with its slice replenished; an outgoing Sleeping or Zombie process keeps
\* its state and its slice; and each of the three is appended to the tail
\* of the run queue by schedule().
C26_OutgoingIsRequeued ==
    [][\A c \in DOMAIN sproc : SwitchedOut(c) =>
          /\ Len(queue') > 0 /\ queue'[Len(queue')] = c
          /\ sproc'[c].state \in {"Runnable", "Sleeping", "Zombie"}
          /\ sproc'[c].state = "Runnable" =>
                sproc[c].state = "Running" /\ sproc'[c].time_slice = sproc'[c].base_slice
          /\ sproc'[c].state \in {"Sleeping", "Zombie"} =>
                sproc'[c].time_slice = sproc[c].time_slice]_vars

\* A process that went to sleep has been taken off the CPU by schedule()
\* and sits, still Sleeping, at the tail of the run queue.
C26_SleepingAtTail ==
    /\ Len(queue) > 0
    /\ sproc[queue[Len(queue)]].state = "Sleeping"
    /\ current # None /\ current # IdlePid
    /\ ran = 0


----------------------------------------------------------------------------
(* Claims about irq_dispatch                                               *)

\* The place of event e in the log of the last irq_dispatch, 0 for none.
PlaceOf(e) ==
    IF \E i \in 1 .. Len(plast.log) : plast.log[i] = e
    THEN CHOOSE i \in 1 .. Len(plast.log) :
            plast.log[i] = e /\ \A j \in 1 .. Len(plast.log) : plast.log[j] = e => i <= j
    ELSE 0

\* C27: for every hardware IRQ that is not spurious the EOI is sent to the
\* PIC before the handler body runs, so that no line is in service while
\* the handler runs or after a context switch made in the timer handler;
\* and for IRQ7 and IRQ15 the spurious check is made before any EOI.
C27_EoiBeforeHandler ==
    /\ plast.irq # None /\ ~plast.spurious =>
          /\ 0 < PlaceOf("eoi") /\ PlaceOf("eoi") < PlaceOf("handler")
          /\ plast.in_service = <<{}, {}>>
          /\ isr1 = {} /\ isr2 = {}
    /\ plast.irq \in {7, 15} =>
          /\ PlaceOf("check") = 1
          /\ \A i \in 1 .. Len(plast.log) : plast.log[i] \in {"eoi", "eoi_master"} => i > 1

\* The timer interrupt has been dispatched with the keyboard line raised
\* meanwhile, and its handler has run after the EOI.
C27_Witness ==
    /\ plast.irq = 0 /\ ~plast.spurious
    /\ plast.log = <<"eoi", "handler">>
    /\ 1 \in irr


----------------------------------------------------------------------------
(* Claims about locks                                                      *)

\* The place of a lock in the order PMM < AddressSpace < Process < RunQueue,
\* 0 for a lock the order does not name.
LockRank(l) ==
    CASE l[1] = "PMM" -> 1
      [] l[1] = "AddressSpace" -> 2
      [] l[1] = "Process" -> 3
      [] l[1] = "RunQueue" -> 4
      [] OTHER -> 0

\* C28: whenever code holds more than one of the PMM, AddressSpace, Process
\* and RunQueue locks it has taken them in the order PMM, AddressSpace,
\* Process, RunQueue; and in the fault and IRQ paths (timer tick, keyboard
\* wake, page fault) the run-queue lock is not held when a process lock is
\* taken.
C28_LockOrder ==
    /\ \A i, j \in 1 .. Len(lheld) :
          (i < j /\ LockRank(lheld[i].lock) > 0 /\ LockRank(lheld[j].lock) > 0) =>
             LockRank(lheld[i].lock) <= LockRank(lheld[j].lock)
    /\ lpath.irq =>
          ~\E i, j \in 1 .. Len(lheld) :
              i < j /\ lheld[i].lock[1] = "RunQueue" /\ lheld[j].lock[1] = "Process"

\* tick, in the timer interrupt, holds the run-queue lock and has taken
\* the lock of the current process under it.
C28_TickLocksUnderRunQueue ==
    /\ lpath.name = "tick"
    /\ Len(lheld) = 2
    /\ lheld[1].lock = RunQueueLock
    /\ lheld[2].lock[1] = "Process"


\* The guard that the next lock operation of the path drops.
DroppedGuard ==
    lheld[CHOOSE k \in 1 .. Len(lheld) : lheld[k].lock = lpath.ops[lpc + 1][2]]

\* C29: interrupts are disabled for the whole time a SpinLock is held, and
\* dropping a guard leaves RFLAGS.IF as it was when that lock was taken, in
\* every nesting and release order of the kernel's paths.
C29_InterruptsOffWhileLocked ==
    /\ [](lheld # << >> => ~lif)
    /\ [][LockRelease => lif' = DroppedGuard.rflags_if]_vars

\* The shell thread, which runs with interrupts enabled, holds the
\* run-queue lock and under it a process lock, taken with interrupts
\* already off.
C29_Witness ==
    /\ Len(lheld) = 2
    /\ lheld[1].rflags_if /\ ~lheld[2].rflags_if
    /\ ~lif
    /\ ~lpath.irq


----------------------------------------------------------------------------
(* Claims about write faults                                               *)

\* A store by p at addr faults, and the area of addr neither allows
\* writing nor is copy-on-write.
WriteFaultInReadOnlyArea(p, addr) ==
    LET v == find_vma(vm[p].areas, addr)
        page == align_down(addr, PAGE_SIZE)
    IN  /\ v.found
        /\ "WRITE" \notin v.vma.flags /\ "COPY_ON_WRITE" \notin v.vma.flags
        /\ ~(page \in DOMAIN pt[p] /\ pt[p][page].w)

\* C30: a write fault on a page of a VMA that is not writable and is not
\* COPY_ON_WRITE is never handled: no frame is allocated, no mapping
\* changes, and the faulting process is terminated with the SIGSEGV status.
C30_WriteFaultNotHandled ==
    [][\A p \in procs : \A addr \in TouchAddrs(vm[p]) : \A val \in StoreVals(pt[p], mem, addr) :
          (UserAccess(p, addr, TRUE, val) /\ WriteFaultInReadOnlyArea(p, addr)) =>
             /\ last'.outcome = "sigsegv" /\ last'.faults = 1
             /\ pt' = pt /\ mem' = mem
             /\ exitc'[p] = 128 + SIGSEGV]_vars

\* The last step was a store into an area that is only readable, and the
\* writer has been terminated with status 128 + SIGSEGV.
C30_Witness ==
    /\ last.op = "write" /\ last.outcome = "sigsegv"
    /\ LET v == find_vma(vm[last.pid].areas, last.arg)
       IN  v.found /\ "WRITE" \notin v.vma.flags /\ "COPY_ON_WRITE" \notin v.vma.flags
    /\ exitc[last.pid] = 128 + SIGSEGV


----------------------------------------------------------------------------
(* Claims about waitpid and the scheduler's current process                *)

\* The run queue holds c.
InQueue(c) == \E i \in 1 .. Len(queue) : queue[i] = c

\* The parent of c is inside a blocking waitpid that c satisfies.
WaitingFor(c) ==
    LET pp == sproc[c].ppid
    IN  /\ pp \in DOMAIN wargs /\ wargs[pp] # NoArgs
        /\ wargs[pp].options % 2 # WNOHANG
        /\ wargs[pp].target \in {-1, c}

\* C31: a parent in a blocking waitpid never misses the exit or the kill
\* of its child: also when the child becomes a Zombie after the parent's
\* scan for zombies and before the parent is marked Sleeping, the parent
\* does not go to sleep over a Zombie child that satisfies its wait (from
\* where only an unrelated wakeup, such as a key, would let it return).
C31_WaitNeverMissesExit ==
    [][\A c \in DOMAIN sproc :
          (sproc[c].state = "Zombie" /\ InQueue(c) /\ WaitingFor(c)) =>
             ~(/\ sproc[sproc[c].ppid].state # "Sleeping"
               /\ sproc'[sproc[c].ppid].state = "Sleeping")]_vars

\* The child is a Zombie in the run queue and its parent, which scanned
\* before the child exited, sleeps in waitpid.
C31_ParentSleepsOverZombie ==
    \E c \in DOMAIN sproc :
       /\ sproc[c].state = "Zombie" /\ InQueue(c) /\ WaitingFor(c)
       /\ retcount[c] = 0
       /\ sproc[sproc[c].ppid].state = "Sleeping"
       /\ ctx[sproc[c].ppid] = "wait"
       /\ cpu # sproc[c].ppid


\* C32: after any sequence of scheduler operations at most one process is
\* Running, and a Running process is the one `current` refers to.
C32_OnlyCurrentRuns ==
    /\ Cardinality({p \in DOMAIN sproc : sproc[p].state = "Running"}) <= 1
    /\ \A p \in DOMAIN sproc : sproc[p].state = "Running" => current = p

\* The shell has been switched out and a forked child is the Running one.
C32_Witness ==
    /\ current = ProgramPid + 1
    /\ sproc[ProgramPid + 1].state = "Running"
    /\ sproc[ShellPid].state # "Running" /\ sproc[ProgramPid].state # "Running"


\* C33: whenever a process is executing, `current` refers to it, so a
\* timer tick finds the process that is on the CPU (and schedule() never
\* leaves `current` empty under a caller that keeps executing).
C33_TickFindsExecuting ==
    [][Tick => (current # None /\ current = cpu)]_vars

\* Inside the shell's schedule() the timer has charged the process that
\* was picked and has not run yet.
C33_TickChargedOther ==
    /\ live = "switching" /\ cpu = ShellPid /\ current = pend.next
    /\ current # cpu
    /\ sproc[current].time_slice < sproc[current].base_slice


----------------------------------------------------------------------------
(* Claims about the frames the PMM has handed out                          *)

\* The blocks alloc returned that were not freed yet, as <<phys, order>>.
StackBlocks == {rt.stack[i] : i \in 1 .. Len(rt.stack)}

Outstanding == held \cup StackBlocks

FreeBlocks == UNION {{<<lists[o][i], o>> : i \in 1 .. Len(lists[o])} : o \in Orders}

\* The byte ranges of two blocks meet.
BlocksMeet(a, b) == a[1] < b[1] + BlockSize(b[2]) /\ b[1] < a[1] + BlockSize(a[2])

\* C34: the PMM never hands out an allocated frame: the blocks returned by
\* alloc and not yet freed are pairwise non-overlapping and disjoint from
\* every block on a free list.
C34_AllocatedNotHandedOut ==
    /\ \A a, b \in Outstanding : a # b => ~BlocksMeet(a, b)
    /\ Cardinality(StackBlocks) = Len(rt.stack) /\ held \cap StackBlocks = {}
    /\ \A a \in Outstanding, f \in FreeBlocks : ~BlocksMeet(a, f)

\* Four blocks are out at once, one of them cut out of a larger block.
C34_Witness ==
    /\ Cardinality(held) = MaxHeld /\ Len(rt.stack) = MaxRoundTrip
    /\ rt.split
    /\ FreeBlocks # {}


\* The pages of all blocks on the free lists.
RECURSIVE PagesListed(_, _)
PagesListed(ls, order) ==
    IF order < 0 THEN 0 ELSE Len(ls[order]) * 2 ^ order + PagesListed(ls, order - 1)

\* C38: free_pages is the number of pages in the blocks on all free lists
\* and never exceeds total_pages.
C38_FreePagesCountsLists ==
    /\ free_pages = PagesListed(lists, MAX_ORDER)
    /\ free_pages <= total_pages

\* A block is out after a split and a free has coalesced buddies.
C38_Witness ==
    /\ held # {} /\ merged >= 1
    /\ free_pages < total_pages
    /\ \E b \in held : b[2] >= 1


----------------------------------------------------------------------------
(* Claims about a fork that runs out of memory                             *)

\* The step is a fork of p that returned -ENOMEM.
ForkFailed(p) ==
    /\ nops' = nops + 1
    /\ last'.op = "fork" /\ last'.pid = p /\ last'.ret = -ENOMEM

\* C35: a fork that fails with -ENOMEM leaves the caller as it was: no
\* child is added, and every page of the parent that was writable before
\* is still writable, so that a store to it takes no fault.
C35_FailedForkLeavesCaller ==
    [][\A p \in procs :
          ForkFailed(p) =>
             /\ procs' = procs
             /\ \A page \in DOMAIN pt[p] :
                   pt[p][page].w => page \in DOMAIN pt'[p] /\ pt'[p][page].w]_vars

\* No fork has succeeded, and the only process was killed by SIGSEGV on a
\* store to a present page of a writable area.
C35_StoreAfterFailedForkKills ==
    /\ Cardinality(procs) = 1
    /\ last.op = "write" /\ last.outcome # "ok" /\ last.faults = 1
    /\ exitc[last.pid] = 128 + SIGSEGV
    /\ last.page \in DOMAIN pt[last.pid] /\ ~pt[last.pid][last.page].w
    /\ LET v == find_vma(vm[last.pid].areas, last.page)
       IN  v.found /\ "WRITE" \in v.vma.flags


----------------------------------------------------------------------------
(* Claims about the keyboard buffer                                        *)

\* The bytes the ring holds between tail and head, oldest first.
RingPending(b) ==
    [i \in 1 .. ((b.head - b.tail + KB_BUF_SIZE) % KB_BUF_SIZE) |->
       b.buf[(b.tail + i - 1) % KB_BUF_SIZE]]

\* C36: the keyboard buffer delivers bytes in FIFO order, each at most
\* once, holds at most KB_BUF_SIZE - 1 = 255 pending bytes, and a push
\* onto a full buffer drops the new byte and leaves the queued bytes as
\* they were.
C36_KbFifo ==
    /\ [](RingPending(kring) = kq /\ Len(RingPending(kring)) <= KB_BUF_SIZE - 1)
    /\ [][(kbops' = kbops + 1 /\ kblast'.op = "pop") =>
            /\ kblast'.ret = (IF kq = << >> THEN NoByte ELSE Head(kq))
            /\ RingPending(kring') = QueuePop(kq)]_vars
    /\ [][(kbops' = kbops + 1 /\ kblast'.op = "push" /\ Len(kq) = KB_BUF_SIZE - 1) =>
            RingPending(kring') = RingPending(kring)]_vars

\* A key was dropped by a full ring whose bytes wrap around the end of the
\* array, after a byte had been read and another key accepted.
C36_Witness ==
    /\ kblast.op = "push" /\ kblast.full
    /\ Len(kq) = KB_BUF_SIZE - 1
    /\ kring.head < kring.tail
    /\ kbops >= 3 /\ kq[KB_BUF_SIZE - 1] \in Keys


\* The step is a read(0, buf, 1).
ReadStep == ucalls' = ucalls + 1 /\ ulast'.call \in {"read", "read none"}

\* C37: a read(0, buf, n) that returns an error leaves the keyboard buffer
\* as it was; a byte is removed only when it was delivered (the call
\* returns 1); with an empty buffer the call returns -EAGAIN.
C37_FailedReadKeepsByte ==
    [][ReadStep =>
         /\ ulast'.ret < 0 => ukb' = ukb
         /\ ukb' # ukb => ulast'.ret = 1 /\ ukb' = ukb - 1
         /\ (ukb = 0 /\ ulast'.ptr # 0) => ulast'.ret = 0 - EAGAIN]_vars

\* A read into a buffer that is not mapped returned -EFAULT and the byte
\* that was waiting is gone.
C37_ByteLostOnEfault ==
    /\ ulast.call = "read" /\ ulast.ptr # 0
    /\ ulast.ret = 0 - EFAULT
    /\ ulast.touched = {}
    /\ ukb = 0


\* C39: a user process started by the shell's run command is removed from
\* the run queue after it has exited: the shell's foreground wait reaps the
\* Zombie, so when wait_foreground returns the process is in the run queue
\* no more.
C39_RunZombieIsReaped ==
    [][(cpu = ShellPid /\ live = "shell_wait" /\ live' = "shell_read") =>
         process_state(sproc', queue', current', ProgramPid) = "None"]_vars

\* wait_foreground has returned and the shell reads the next line while
\* the program it ran is a Zombie in the run queue.
C39_ShellReadsOverZombie ==
    /\ ShellReading
    /\ sproc[ProgramPid].state = "Zombie"
    /\ \E i \in 1 .. Len(queue) : queue[i] = ProgramPid

====
